---- MODULE Spec2Model ----
(***************************************************************************)
(* Model of the WordPress REST API -> Bruno collection converter.          *)
(*                                                                         *)
(* Strings are TLA+ strings read character by character (SubSeq(s, i, i)), *)
(* so that the regular expressions of the source are modelled by what they *)
(* match.  A JavaScript value is the pair <<tag, value>> of its type and   *)
(* its value (x[1] and x[2] below); the value of an object is the sequence *)
(* of its <<key, value>> members in insertion order.                       *)
(***************************************************************************)
EXTENDS Integers, Sequences, FiniteSets, TLC

VARIABLES
    call,      \* a call of one helper function: its name and its arguments
    result,    \* what that call returned (NoResult before it returns)
    route,     \* transformWordPressEndpoint: the route pattern
    method,    \* transformWordPressEndpoint: the HTTP method as discovered
    endpoint,  \* transformWordPressEndpoint: the endpoint entry (its args)
    schema,    \* transformWordPressEndpoint: the resource schema or null
    clock,     \* the text new Date().toISOString() gives during the run
    pc,        \* "call" before the transformation, then "returned" or "threw"
    item,      \* the Bruno request item returned by the transformation
    run        \* a run of the command line tool: wordpressToBruno, then the
               \* writing of the collection

vars == <<call, result, route, method, endpoint, schema, clock, pc, item, run>>

-----------------------------------------------------------------------------
(* JavaScript values *)

Undef == <<"undefined", "undefined">>
JNull == <<"null", "null">>
JStr(s) == <<"string", s>>
JNum(n) == <<"number", n>>
JBool(b) == <<"boolean", b>>
JArr(seq) == <<"array", seq>>
JObj(pairs) == <<"object", pairs>>

\* JavaScript truthiness (ToBoolean)
Truthy(x) ==
    CASE x[1] = "undefined" -> FALSE
      [] x[1] = "null" -> FALSE
      [] x[1] = "string" -> x[2] # ""
      [] x[1] = "number" -> x[2] # 0
      [] x[1] = "boolean" -> x[2]
      [] OTHER -> TRUE

\* String(x) for the primitive values an argument's default can hold
RECURSIVE DigitsOf(_)
DigitsOf(n) ==
    IF n < 10 THEN SubSeq("0123456789", n + 1, n + 1)
    ELSE DigitsOf(n \div 10) \o SubSeq("0123456789", (n % 10) + 1, (n % 10) + 1)

ToJSString(x) ==
    CASE x[1] = "string" -> x[2]
      [] x[1] = "number" -> IF x[2] < 0 THEN "-" \o DigitsOf(0 - x[2]) ELSE DigitsOf(x[2])
      [] x[1] = "boolean" -> IF x[2] THEN "true" ELSE "false"
      [] x[1] = "null" -> "null"
      [] x[1] = "undefined" -> "undefined"
      [] x[1] = "array" -> IF x[2] = <<>> THEN "" ELSE "[array]"
      [] OTHER -> "[object Object]"

\* Objects as ordered <<key, value>> pairs
Keys(pairs) == [i \in 1..Len(pairs) |-> pairs[i][1]]
HasKey(pairs, k) == \E i \in 1..Len(pairs) : pairs[i][1] = k
Get(pairs, k) ==
    IF HasKey(pairs, k)
    THEN pairs[CHOOSE i \in 1..Len(pairs) : pairs[i][1] = k][2]
    ELSE Undef
Put(pairs, k, val) ==
    IF HasKey(pairs, k)
    THEN [i \in 1..Len(pairs) |-> IF pairs[i][1] = k THEN <<k, val>> ELSE pairs[i]]
    ELSE Append(pairs, <<k, val>>)

\* obj.k of an object: undefined when the object has no such member
Member(obj, k) == Get(obj[2], k)

SeqIncludes(seq, x) == \E i \in 1..Len(seq) : seq[i] = x

-----------------------------------------------------------------------------
(* Strings and the character classes of the regular expressions *)

Ch(s, i) == SubSeq(s, i, i)

LowerLetters == "abcdefghijklmnopqrstuvwxyz"
UpperLetters == "ABCDEFGHIJKLMNOPQRSTUVWXYZ"
Digits == "0123456789"

InChars(c, chars) == \E k \in 1..Len(chars) : Ch(chars, k) = c
IndexIn(c, chars) == CHOOSE k \in 1..Len(chars) : Ch(chars, k) = c

IsDigit(c) == InChars(c, Digits)
\* \w
IsWord(c) == InChars(c, LowerLetters) \/ InChars(c, UpperLetters) \/ IsDigit(c) \/ c = "_"

UpperCh(c) == IF InChars(c, LowerLetters) THEN Ch(UpperLetters, IndexIn(c, LowerLetters)) ELSE c
LowerCh(c) == IF InChars(c, UpperLetters) THEN Ch(LowerLetters, IndexIn(c, UpperLetters)) ELSE c

RECURSIVE MapChars(_, _, _)
MapChars(s, i, toUpper) ==
    IF i > Len(s) THEN ""
    ELSE (IF toUpper THEN UpperCh(Ch(s, i)) ELSE LowerCh(Ch(s, i))) \o MapChars(s, i + 1, toUpper)

toUpperCase(s) == MapChars(s, 1, TRUE)
toLowerCase(s) == MapChars(s, 1, FALSE)

StartsAt(s, i, pat) ==
    /\ i >= 1
    /\ i + Len(pat) - 1 <= Len(s)
    /\ SubSeq(s, i, i + Len(pat) - 1) = pat

includes(s, pat) == \E i \in 1..(Len(s) + 1) : StartsAt(s, i, pat)

\* first index >= i whose character is not a word character (Len(s)+1 if none)
RECURSIVE WordRunEnd(_, _)
WordRunEnd(s, i) ==
    IF i > Len(s) \/ ~IsWord(Ch(s, i)) THEN i ELSE WordRunEnd(s, i + 1)

\* first index >= i whose character is no digit (Len(s)+1 if none)
RECURSIVE DigitRunEnd(_, _)
DigitRunEnd(s, i) ==
    IF i > Len(s) \/ ~IsDigit(Ch(s, i)) THEN i ELSE DigitRunEnd(s, i + 1)

\* first index >= i whose character is `stop` (Len(s)+1 if none)
RECURSIVE RunUntil(_, _, _)
RunUntil(s, i, stop) ==
    IF i > Len(s) \/ Ch(s, i) = stop THEN i ELSE RunUntil(s, i + 1, stop)

-----------------------------------------------------------------------------
(* The capture-group regular expression of the source: the literal "(?P<", *)
(* one or more word characters, ">", one or more characters other than    *)
(* ")", and ")".  The name is followed by ">" and the pattern by ")",      *)
(* neither of which the run before it can hold, so the greedy match is the *)
(* maximal run.  CaptureGroupAt is the match starting at index i, if any.  *)

CaptureGroupAt(s, i) ==
    LET nameFrom == i + 4
        nameEnd == WordRunEnd(s, nameFrom)
        patFrom == nameEnd + 1
        patEnd == RunUntil(s, patFrom, ")")
        ok == /\ StartsAt(s, i, "(?P<")
              /\ nameEnd > nameFrom
              /\ StartsAt(s, nameEnd, ">")
              /\ patEnd > patFrom
              /\ patEnd <= Len(s)
    IN  IF ok
        THEN [ok |-> TRUE, name |-> SubSeq(s, nameFrom, nameEnd - 1), last |-> patEnd]
        ELSE [ok |-> FALSE, name |-> "", last |-> i]

\* route.replace(regex, replacement) with the g flag: every match, left to
\* right, becomes prefix, the captured name when withName, and suffix
RECURSIVE ReplaceCaptureGroups(_, _, _, _, _)
ReplaceCaptureGroups(s, i, prefix, withName, suffix) ==
    IF i > Len(s) THEN ""
    ELSE LET m == CaptureGroupAt(s, i)
         IN  IF m.ok
             THEN prefix \o (IF withName THEN m.name ELSE "") \o suffix
                  \o ReplaceCaptureGroups(s, m.last + 1, prefix, withName, suffix)
             ELSE Ch(s, i) \o ReplaceCaptureGroups(s, i + 1, prefix, withName, suffix)

\* the names captured by route.matchAll(regex), in order
RECURSIVE CaptureGroupNames(_, _)
CaptureGroupNames(s, i) ==
    IF i > Len(s) THEN <<>>
    ELSE LET m == CaptureGroupAt(s, i)
         IN  IF m.ok
             THEN <<m.name>> \o CaptureGroupNames(s, m.last + 1)
             ELSE CaptureGroupNames(s, i + 1)

extractPathParameters(r) == CaptureGroupNames(r, 1)

-----------------------------------------------------------------------------
(* getParameterLocation *)

getParameterLocation_GetFirst(m, paramName, pathParams) ==
    IF toUpperCase(m) = "GET" THEN "query"
    ELSE IF SeqIncludes(pathParams, paramName) THEN "path"
    ELSE "body"

getParameterLocation(m, paramName, pathParams) ==
    IF SeqIncludes(pathParams, paramName) THEN "path"
    ELSE IF toUpperCase(m) = "GET" THEN "query"
    ELSE "body"

-----------------------------------------------------------------------------
(* normalizeWordPressType, normalizeEnum *)

typeReplacements ==
    << <<"date", "string">>, <<"date-time", "string">>, <<"email", "string">>,
       <<"hostname", "string">>, <<"ipv4", "string">>, <<"ipv6", "string">>,
       <<"uri", "string">>, <<"url", "string">>, <<"mixed", "string">>,
       <<"bool", "boolean">> >>

\* the members an object literal inherits from Object.prototype: every one
\* is a function but __proto__, which is the prototype object itself
ObjectPrototype ==
    <<"constructor", "hasOwnProperty", "isPrototypeOf", "propertyIsEnumerable",
      "toLocaleString", "toString", "valueOf", "__defineGetter__",
      "__defineSetter__", "__lookupGetter__", "__lookupSetter__", "__proto__">>

\* typeReplacements[type]: the own member, else the inherited one, else
\* undefined; the key of a value that is no string is its String()
TypeReplacement(type) ==
    LET key == ToJSString(type)
    IN  IF HasKey(typeReplacements, key) THEN JStr(Get(typeReplacements, key))
        ELSE IF SeqIncludes(ObjectPrototype, key)
             THEN IF key = "__proto__" THEN <<"prototype", "Object.prototype">>
                  ELSE <<"function", key>>
             ELSE Undef

RECURSIVE normalizeWordPressType(_)
normalizeWordPressType(type) ==
    IF type[1] = "array"
    THEN JArr([i \in 1..Len(type[2]) |-> normalizeWordPressType(type[2][i])])
    ELSE IF Truthy(TypeReplacement(type)) THEN TypeReplacement(type) ELSE type

\* [...new Set(values)]: the first occurrence of each value, in order
RECURSIVE Dedupe(_, _)
Dedupe(seq, i) ==
    IF i > Len(seq) THEN <<>>
    ELSE IF \E j \in 1..(i - 1) : seq[j] = seq[i]
         THEN Dedupe(seq, i + 1)
         ELSE <<seq[i]>> \o Dedupe(seq, i + 1)

normalizeEnum(enumValues) ==
    IF enumValues[1] # "array" THEN enumValues ELSE JArr(Dedupe(enumValues[2], 1))

-----------------------------------------------------------------------------
(* isCollectionEndpoint *)

collectionEndpoints ==
    << "/wp/v2/posts", "/wp/v2/pages", "/wp/v2/media", "/wp/v2/menu-items",
       "/wp/v2/blocks", "/wp/v2/templates", "/wp/v2/template-parts",
       "/wp/v2/navigation", "/wp/v2/font-families", "/wp/v2/categories",
       "/wp/v2/tags", "/wp/v2/menus", "/wp/v2/wp_pattern_category",
       "/wp/v2/users", "/wp/v2/comments", "/wp/v2/search", "/wp/v2/block-types",
       "/wp/v2/themes", "/wp/v2/plugins", "/wp/v2/sidebars",
       "/wp/v2/widget-types", "/wp/v2/widgets", "/wp/v2/block-directory/search",
       "/wp/v2/pattern-directory/patterns", "/wp/v2/block-patterns/patterns",
       "/wp/v2/block-patterns/categories", "/wp/v2/font-collections",
       "/wp/v2/posts/{parent}/revisions", "/wp/v2/posts/{id}/autosaves",
       "/wp/v2/pages/{parent}/revisions", "/wp/v2/pages/{id}/autosaves",
       "/wp/v2/menu-items/{id}/autosaves", "/wp/v2/blocks/{parent}/revisions",
       "/wp/v2/blocks/{id}/autosaves", "/wp/v2/templates/{parent}/revisions",
       "/wp/v2/templates/{id}/autosaves",
       "/wp/v2/template-parts/{parent}/revisions",
       "/wp/v2/template-parts/{id}/autosaves",
       "/wp/v2/global-styles/{parent}/revisions",
       "/wp/v2/global-styles/themes/{stylesheet}/variations",
       "/wp/v2/navigation/{parent}/revisions", "/wp/v2/navigation/{id}/autosaves",
       "/wp/v2/font-families/{font_family_id}/font-faces",
       "/wp/v2/users/{user_id}/application-passwords" >>

\* endpoint.replace(re, '{param}') where re is "{", one or more word
\* characters, "}"
RECURSIVE ReplaceBraces(_, _)
ReplaceBraces(s, i) ==
    IF i > Len(s) THEN ""
    ELSE LET e == WordRunEnd(s, i + 1)
         IN  IF Ch(s, i) = "{" /\ e > i + 1 /\ StartsAt(s, e, "}")
             THEN "{param}" \o ReplaceBraces(s, e + 1)
             ELSE Ch(s, i) \o ReplaceBraces(s, i + 1)

\* the endpointPattern of every entry of the catalog
endpointPatterns ==
    {ReplaceBraces(collectionEndpoints[k], 1) : k \in 1..Len(collectionEndpoints)}

isCollectionEndpoint(r) ==
    ReplaceCaptureGroups(r, 1, "{param}", FALSE, "") \in endpointPatterns

-----------------------------------------------------------------------------
(* isParameterRequired, extractValidationConstraints.  A field definition  *)
(* (an argument or a schema property) is a JavaScript object.              *)

isParameterRequired_Truthy(argDef, isPathParam) ==
    IF isPathParam THEN TRUE ELSE Truthy(Member(argDef, "required"))

isParameterRequired(argDef, isPathParam) ==
    IF isPathParam THEN TRUE
    ELSE IF Member(argDef, "required")[1] = "boolean" THEN Member(argDef, "required")[2]
    ELSE FALSE

\* the members of the constraints object that the transformation reads
extractValidationConstraints(arg) ==
    [enum |-> IF Truthy(Member(arg, "enum")) THEN normalizeEnum(Member(arg, "enum"))
              ELSE Member(arg, "enum"),
     minLength |-> Member(arg, "minLength"),
     maxLength |-> Member(arg, "maxLength")]

-----------------------------------------------------------------------------
(* generateExampleValue.  `now` is the text new Date().toISOString() gives *)
(* at the time of the call.                                                *)

\* Member(property, "enum") && Member(property, "enum").length > 0
HasNonEmptyEnum(property) ==
    \/ Member(property, "enum")[1] = "array" /\ Len(Member(property, "enum")[2]) > 0
    \/ Member(property, "enum")[1] = "string" /\ Len(Member(property, "enum")[2]) > 0

\* Member(property, "enum")[0]
FirstOfEnum(property) ==
    IF Member(property, "enum")[1] = "array" THEN Member(property, "enum")[2][1]
    ELSE JStr(Ch(Member(property, "enum")[2], 1))

\* the default branch of the switch: contextual examples by field name
StringExample(property, name, now) ==
    IF name = "status" THEN JStr("publish")
    ELSE IF name = "title" \/ name = "name" THEN JStr("Example Title")
    ELSE IF name = "content" THEN JStr("Example content")
    ELSE IF name = "excerpt" THEN JStr("Example excerpt")
    ELSE IF name = "slug" THEN JStr("example-slug")
    ELSE IF name = "password" THEN JStr("")
    ELSE IF name = "author" THEN JNum(1)
    ELSE IF Member(property, "format") = JStr("date-time") THEN JStr(now)
    ELSE IF Member(property, "format") = JStr("uri") THEN JStr("https://example.com")
    ELSE JStr("")

RECURSIVE TypeExample(_, _, _)
RECURSIVE generateExampleValue(_, _, _)

\* the switch on the normalized type
TypeExample(property, name, now) ==
    LET normalizedType ==
            normalizeWordPressType(
                IF Truthy(Member(property, "type")) THEN Member(property, "type") ELSE JStr("string"))
    IN  CASE normalizedType = JStr("integer") -> JNum(0)
          [] normalizedType = JStr("number") -> JNum(0)
          [] normalizedType = JStr("boolean") -> JBool(FALSE)
          [] normalizedType = JStr("array") -> JArr(<<>>)
          [] normalizedType = JStr("object") ->
                IF Truthy(Member(property, "properties"))
                THEN JObj([i \in 1..Len(Member(property, "properties")[2]) |->
                        <<Member(property, "properties")[2][i][1],
                          generateExampleValue(Member(property, "properties")[2][i][2],
                                               Member(property, "properties")[2][i][1], now)>>])
                ELSE JObj(<<>>)
          [] OTHER -> StringExample(property, name, now)

generateExampleValue_TruthyDefault(property, name, now) ==
    IF HasNonEmptyEnum(property) THEN FirstOfEnum(property)
    ELSE IF Truthy(Member(property, "default")) THEN Member(property, "default")
    ELSE TypeExample(property, name, now)

generateExampleValue(property, name, now) ==
    IF HasNonEmptyEnum(property) THEN FirstOfEnum(property)
    ELSE IF Member(property, "default") # Undef THEN Member(property, "default")
    ELSE TypeExample(property, name, now)

-----------------------------------------------------------------------------
(* JSON.stringify / JSON.parse.  The JSON text is modelled by its tokens:  *)
(* a member whose value is undefined is left out, undefined in an array    *)
(* becomes null, every other value becomes its literal.                    *)

RECURSIVE JSONValue(_)
JSONValue(x) ==
    CASE x[1] = "object" ->
            LET kept == SelectSeq(x[2], LAMBDA pr : pr[2][1] # "undefined")
            IN  <<"{}", [i \in 1..Len(kept) |-> <<kept[i][1], JSONValue(kept[i][2])>>]>>
      [] x[1] = "array" ->
            <<"[]", [i \in 1..Len(x[2]) |->
                        IF x[2][i][1] = "undefined" THEN <<"literal", "null">>
                        ELSE JSONValue(x[2][i])]>>
      [] x[1] = "string" -> <<"quoted", x[2]>>
      [] OTHER -> <<"literal", ToJSString(x)>>

JSONStringify(x) == JSONValue(x)

\* the number a literal of digits denotes
RECURSIVE NumberOf(_, _)
NumberOf(s, n) ==
    IF n = 0 THEN 0
    ELSE 10 * NumberOf(s, n - 1) + (IndexIn(Ch(s, n), Digits) - 1)

RECURSIVE JSONParse(_)
JSONParse(text) ==
    CASE text[1] = "{}" ->
            JObj([i \in 1..Len(text[2]) |-> <<text[2][i][1], JSONParse(text[2][i][2])>>])
      [] text[1] = "[]" -> JArr([i \in 1..Len(text[2]) |-> JSONParse(text[2][i])])
      [] text[1] = "quoted" -> JStr(text[2])
      [] text[2] = "null" -> JNull
      [] text[2] = "true" -> JBool(TRUE)
      [] text[2] = "false" -> JBool(FALSE)
      [] Ch(text[2], 1) = "-" -> JNum(0 - NumberOf(Tail(text[2]), Len(text[2]) - 1))
      [] OTHER -> JNum(NumberOf(text[2], Len(text[2])))

-----------------------------------------------------------------------------
(* generateRequestBody *)

commonFields ==
    <<"title", "content", "excerpt", "status", "author", "slug", "password",
      "name", "description">>

\* each(args, ...): the argument pass from the i-th argument on, body being
\* the mapping so far
RECURSIVE ArgsPass(_, _, _, _, _, _)
ArgsPass(args, i, body, m, pathParams, now) ==
    IF i > Len(args) THEN body
    ELSE LET argName == args[i][1]
             arg == args[i][2]
             property ==
                JObj(<< <<"type", normalizeWordPressType(
                                    IF Truthy(Member(arg, "type"))
                                    THEN Member(arg, "type") ELSE JStr("string"))>>,
                        <<"default", Member(arg, "default")>>,
                        <<"enum", IF Truthy(Member(arg, "enum"))
                                  THEN normalizeEnum(Member(arg, "enum")) ELSE Undef>>,
                        <<"format", Member(arg, "format")>> >>)
             skip == \/ argName = "context"
                     \/ SeqIncludes(pathParams, argName)
                     \/ Member(arg, "readonly") = JBool(TRUE)
             next ==
                IF ~skip /\ getParameterLocation(m, argName, pathParams) = "body"
                THEN Put(body, argName, generateExampleValue(property, argName, now))
                ELSE body
         IN  ArgsPass(args, i + 1, next, m, pathParams, now)

RECURSIVE SchemaPass_Overwrite(_, _, _, _)
SchemaPass_Overwrite(props, i, body, now) ==
    IF i > Len(props) THEN body
    ELSE LET name == props[i][1]
             property == props[i][2]
             skip == Member(property, "readonly") = JBool(TRUE)
             next ==
                IF ~skip /\ SeqIncludes(commonFields, name)
                THEN Put(body, name, generateExampleValue(property, name, now))
                ELSE body
         IN  SchemaPass_Overwrite(props, i + 1, next, now)

\* each(schema.properties, ...): the schema pass
RECURSIVE SchemaPass(_, _, _, _)
SchemaPass(props, i, body, now) ==
    IF i > Len(props) THEN body
    ELSE LET name == props[i][1]
             property == props[i][2]
             skip == Get(body, name) # Undef \/ Member(property, "readonly") = JBool(TRUE)
             next ==
                IF ~skip /\ SeqIncludes(commonFields, name)
                THEN Put(body, name, generateExampleValue(property, name, now))
                ELSE body
         IN  SchemaPass(props, i + 1, next, now)

\* the mapping `body` at the return statement
RequestBodyMapping(args, sch, m, pathParams, now) ==
    LET afterArgs ==
            IF Truthy(args) THEN ArgsPass(args[2], 1, <<>>, m, pathParams, now) ELSE <<>>
        properties == IF sch[1] = "object" THEN Get(sch[2], "properties") ELSE Undef
    IN  IF Truthy(properties)
        THEN SchemaPass(properties[2], 1, afterArgs, now)
        ELSE afterArgs

generateRequestBody(args, sch, m, pathParams, now) ==
    LET body == RequestBodyMapping(args, sch, m, pathParams, now)
    IN  IF Len(body) > 0 THEN JSONStringify(JObj(body)) ELSE JNull

-----------------------------------------------------------------------------
(* transformWordPressEndpoint *)

\* route.match of "/wp/v2/" followed by one or more word characters: the
\* leftmost match's captured run, or "" when there is no match
RECURSIVE ResourceMatch(_, _)
ResourceMatch(r, i) ==
    IF i > Len(r) THEN ""
    ELSE IF StartsAt(r, i, "/wp/v2/") /\ WordRunEnd(r, i + 7) > i + 7
         THEN SubSeq(r, i + 7, WordRunEnd(r, i + 7) - 1)
         ELSE ResourceMatch(r, i + 1)

ResourceOf(r) ==
    IF ResourceMatch(r, 1) # "" THEN ResourceMatch(r, 1) ELSE "resource"

hasIdParam(r) == includes(r, "(?P<")
isAutosave(r) == includes(r, "autosaves")
isRevision(r) == includes(r, "revisions")

\* the switch that derives the request name
RequestName(r, methodUpper) ==
    LET resource == ResourceOf(r)
    IN  CASE methodUpper = "GET" ->
                IF isAutosave(r)
                THEN IF hasIdParam(r) /\ includes(toLowerCase(r), "autosaves/(?p<id>")
                     THEN "Get " \o resource \o " autosave by ID"
                     ELSE "List " \o resource \o " autosaves"
                ELSE IF isRevision(r)
                THEN IF hasIdParam(r) /\ includes(toLowerCase(r), "revisions/(?p<id>")
                     THEN "Get " \o resource \o " revision by ID"
                     ELSE "List " \o resource \o " revisions"
                ELSE IF hasIdParam(r) THEN "Get " \o resource \o " by ID"
                ELSE IF isCollectionEndpoint(r) THEN "List " \o resource
                ELSE "Get " \o resource
          [] methodUpper = "POST" ->
                IF isAutosave(r) THEN "Create " \o resource \o " autosave"
                ELSE IF isRevision(r) THEN "Create " \o resource \o " revision"
                ELSE "Create " \o resource
          [] methodUpper \in {"PUT", "PATCH"} -> "Update " \o resource
          [] methodUpper = "DELETE" ->
                IF isAutosave(r) THEN "Delete " \o resource \o " autosave"
                ELSE IF isRevision(r) THEN "Delete " \o resource \o " revision"
                ELSE "Delete " \o resource
          [] OTHER -> methodUpper \o " " \o r

\* route.replace(regex, ':$1')
BrunoUrl(r) == ReplaceCaptureGroups(r, 1, ":", TRUE, "")

\* the Content-Type header pushed for POST, PUT and PATCH
RequestHeaders(methodUpper) ==
    IF methodUpper \in {"POST", "PUT", "PATCH"}
    THEN << [name |-> "Content-Type", value |-> "application/json",
             description |-> "", enabled |-> TRUE] >>
    ELSE <<>>

\* constraints.enum.join(', ')
RECURSIVE Join(_, _)
Join(seq, i) ==
    IF i > Len(seq) THEN ""
    ELSE (IF seq[i][1] \in {"null", "undefined"} THEN "" ELSE ToJSString(seq[i]))
         \o (IF i < Len(seq) THEN ", " ELSE "")
         \o Join(seq, i + 1)

\* the description of a query parameter, with the validation info appended
QueryDescription(arg) ==
    LET constraints == extractValidationConstraints(arg)
        d0 == IF Truthy(Member(arg, "description")) THEN Member(arg, "description")[2] ELSE ""
        d1 == IF Truthy(constraints.enum)
              THEN d0 \o (IF d0 # "" THEN ". " ELSE "")
                      \o "Allowed values: " \o Join(constraints.enum[2], 1)
              ELSE d0
        hasMin == Truthy(constraints.minLength)
        hasMax == Truthy(constraints.maxLength)
    IN  IF hasMin \/ hasMax
        THEN d1 \o (IF d1 # "" THEN ". " ELSE "")
                \o (IF hasMin THEN "Min length: " \o ToJSString(constraints.minLength) ELSE "")
                \o (IF hasMin /\ hasMax THEN ", " ELSE "")
                \o (IF hasMax THEN "Max length: " \o ToJSString(constraints.maxLength) ELSE "")
        ELSE d1

\* constraints.enum.join is not a function: the enum is truthy and no list
QueryParamThrows(arg) ==
    LET constraints == extractValidationConstraints(arg)
    IN  Truthy(constraints.enum) /\ constraints.enum[1] # "array"

\* each(args, ...): the parameter entries pushed for args[i..]
RECURSIVE ParamsFromArgs(_, _, _, _)
ParamsFromArgs(args, i, methodUpper, pathParams) ==
    IF i > Len(args) THEN <<>>
    ELSE LET argName == args[i][1]
             arg == args[i][2]
             location == getParameterLocation(methodUpper, argName, pathParams)
             pushed ==
                IF argName = "context" THEN <<>>
                ELSE IF location = "path"
                THEN << [name |-> argName, value |-> "",
                         description |-> IF Truthy(Member(arg, "description"))
                                         THEN Member(arg, "description")[2] ELSE "",
                         enabled |-> TRUE, type |-> "path"] >>
                ELSE IF location = "query"
                THEN << [name |-> argName,
                         value |-> IF Member(arg, "default") # Undef
                                   THEN ToJSString(Member(arg, "default")) ELSE "",
                         description |-> QueryDescription(arg),
                         enabled |-> isParameterRequired(arg, FALSE),
                         type |-> "query"] >>
                ELSE <<>>
         IN  pushed \o ParamsFromArgs(args, i + 1, methodUpper, pathParams)

\* whether the each(args, ...) loop throws
ArgsLoopThrows(args, methodUpper, pathParams) ==
    \E i \in 1..Len(args) :
        /\ args[i][1] # "context"
        /\ getParameterLocation(methodUpper, args[i][1], pathParams) = "query"
        /\ QueryParamThrows(args[i][2])

commonParams ==
    << [name |-> "page", value |-> "1",
        description |-> "Current page of the collection"],
       [name |-> "per_page", value |-> "10",
        description |-> "Maximum number of items to be returned"],
       [name |-> "search", value |-> "",
        description |-> "Limit results to those matching a string"],
       [name |-> "orderby", value |-> "date",
        description |-> "Sort collection by object attribute"],
       [name |-> "order", value |-> "desc",
        description |-> "Order sort attribute ascending or descending"] >>

HasParamNamed(params, n) == \E k \in 1..Len(params) : params[k].name = n

\* commonParams.forEach(...): add each one no parameter is named like
RECURSIVE AddCommonParams(_, _)
AddCommonParams(params, i) ==
    IF i > Len(commonParams) THEN params
    ELSE AddCommonParams(
            IF HasParamNamed(params, commonParams[i].name) THEN params
            ELSE Append(params,
                    [name |-> commonParams[i].name, value |-> commonParams[i].value,
                     description |-> commonParams[i].description,
                     enabled |-> FALSE, type |-> "query"]),
            i + 1)

embedParam ==
    [name |-> "_embed", value |-> "1",
     description |-> "Include embedded resources in response",
     enabled |-> FALSE, type |-> "query"]

\* the parameters added for GET list requests
ListParams(params, r, methodUpper) ==
    IF methodUpper = "GET" /\ ~hasIdParam(r)
    THEN Append(AddCommonParams(params, 1), embedParam)
    ELSE params

\* the body of the request: generated for POST, PUT and PATCH
RequestBody(args, sch, methodUpper, pathParams, now) ==
    LET bodyJson == IF methodUpper \in {"POST", "PUT", "PATCH"}
                    THEN generateRequestBody(args, sch, methodUpper, pathParams, now)
                    ELSE JNull
    IN  IF bodyJson # JNull
        THEN [mode |-> "json", json |-> bodyJson]
        ELSE [mode |-> "none", json |-> JNull]

StatusTest(code) ==
    "test(\"Status code is " \o code \o "\", function() {\n  expect(res.status).to.equal("
    \o code \o ");\n});"

ArrayTest ==
    "\n\ntest(\"Response is an array\", function() {\n  expect(res.body).to.be.an('array');\n});"

RequestTests_ArrayForAnyGet(r, methodUpper) ==
    StatusTest(IF methodUpper = "POST" THEN "201" ELSE "200")
    \o (IF methodUpper = "GET" /\ isCollectionEndpoint(r) THEN ArrayTest ELSE "")

\* the tests script
RequestTests(r, methodUpper) ==
    StatusTest(IF methodUpper = "POST" THEN "201" ELSE "200")
    \o (IF methodUpper = "GET" /\ isCollectionEndpoint(r) /\ ~hasIdParam(r)
        THEN ArrayTest ELSE "")

\* endpoint.args || {}
ArgsOf(ep) ==
    IF Truthy(Get(ep[2], "args")) THEN Get(ep[2], "args") ELSE JObj(<<>>)

transformThrows(r, m, ep, sch) ==
    ArgsLoopThrows(ArgsOf(ep)[2], toUpperCase(m), extractPathParameters(r))

transformWordPressEndpoint(r, m, ep, sch, now) ==
    LET methodUpper == toUpperCase(m)
        args == ArgsOf(ep)
        pathParams == extractPathParameters(r)
    IN  [name |-> RequestName(r, methodUpper),
         type |-> "http-request",
         seq |-> 1,
         request |->
            [url |-> "{{baseUrl}}" \o BrunoUrl(r),
             method |-> methodUpper,
             auth |-> [mode |-> "inherit"],
             headers |-> RequestHeaders(methodUpper),
             params |-> ListParams(ParamsFromArgs(args[2], 1, methodUpper, pathParams),
                                   r, methodUpper),
             body |-> RequestBody(args, sch, methodUpper, pathParams, now),
             tests |-> RequestTests(r, methodUpper),
             assertions |-> <<>>]]

-----------------------------------------------------------------------------
(* organizeIntoFolders *)

\* s.replace(/\//g, '-')
RECURSIVE SlashesToDashes(_, _)
SlashesToDashes(s, i) ==
    IF i > Len(s) THEN ""
    ELSE (IF Ch(s, i) = "/" THEN "-" ELSE Ch(s, i)) \o SlashesToDashes(s, i + 1)

\* first index >= i whose character is "/", ":" or "?" (Len(s)+1 if none)
RECURSIVE ResourceRunEnd(_, _)
ResourceRunEnd(s, i) ==
    IF i > Len(s) \/ Ch(s, i) \in {"/", ":", "?"} THEN i ELSE ResourceRunEnd(s, i + 1)

\* the match of "/", a run without "/", "/v", digits, "/" and a run without
\* "/", ":" and "?" that starts at index i.  Each run is followed by a
\* character it cannot hold or by nothing, so the greedy match is the
\* maximal run.
UrlMatchAt(url, i) ==
    LET nameEnd == RunUntil(url, i + 1, "/")
        verEnd == DigitRunEnd(url, nameEnd + 2)
        resEnd == ResourceRunEnd(url, verEnd + 1)
        found == /\ Ch(url, i) = "/"
                 /\ nameEnd > i + 1
                 /\ StartsAt(url, nameEnd, "/v")
                 /\ verEnd > nameEnd + 2
                 /\ StartsAt(url, verEnd, "/")
                 /\ resEnd > verEnd + 1
    IN  [found |-> found,
         namespace |-> IF found THEN SubSeq(url, i + 1, verEnd - 1) ELSE "",
         resource |-> IF found THEN SubSeq(url, verEnd + 1, resEnd - 1) ELSE ""]

\* item.request.url.match(...): the leftmost match
RECURSIVE UrlMatch(_, _)
UrlMatch(url, i) ==
    IF i > Len(url) THEN [found |-> FALSE, namespace |-> "", resource |-> ""]
    ELSE IF UrlMatchAt(url, i).found THEN UrlMatchAt(url, i)
    ELSE UrlMatch(url, i + 1)

\* the number of uuid() calls made for a list of namespace folders: one for
\* each namespace folder and one for each resource folder
RECURSIVE FolderCount(_, _)
FolderCount(folders, i) ==
    IF i > Len(folders) THEN 0
    ELSE 1 + Len(folders[i].items) + FolderCount(folders, i + 1)

\* Array.from(namespaceMap.values()), namespaceMap being the Map as the
\* sequence of its entries in insertion order
MapValues(namespaceMap) == [e \in 1..Len(namespaceMap) |-> namespaceMap[e].value]

\* the entry of the namespace in the Map, 0 when namespaceMap.has is false
IndexOfNamespace(namespaceMap, namespace) ==
    IF \E j \in 1..Len(namespaceMap) : namespaceMap[j].key = namespace
    THEN CHOOSE j \in 1..Len(namespaceMap) : namespaceMap[j].key = namespace
    ELSE 0

IndexOfFolder_First(folders, name) == IF folders = <<>> THEN 0 ELSE 1

\* namespaceFolder.items.find(...): the first folder of that name, 0 if none
IndexOfFolder(folders, name) ==
    IF \E j \in 1..Len(folders) : folders[j].type = "folder" /\ folders[j].name = name
    THEN CHOOSE j \in 1..Len(folders) :
            /\ folders[j].type = "folder" /\ folders[j].name = name
            /\ \A k \in 1..(j - 1) : ~(folders[k].type = "folder" /\ folders[k].name = name)
    ELSE 0

\* namespaceMap.set(namespace, {...}) when the Map has no such namespace
SetNamespace(namespaceMap, namespace, uid) ==
    IF IndexOfNamespace(namespaceMap, namespace) # 0 THEN namespaceMap
    ELSE Append(namespaceMap,
                [key |-> namespace,
                 value |-> [uid |-> uid, name |-> SlashesToDashes(namespace, 1),
                            type |-> "folder", items |-> <<>>]])

PushResource_Unshift(folders, resource, uid) ==
    IF IndexOfFolder(folders, resource) # 0 THEN folders
    ELSE <<[uid |-> uid, name |-> resource, type |-> "folder", items |-> <<>>]>>
         \o folders

\* namespaceFolder.items.push(resourceFolder) when find found none
PushResource(folders, resource, uid) ==
    IF IndexOfFolder(folders, resource) # 0 THEN folders
    ELSE Append(folders, [uid |-> uid, name |-> resource, type |-> "folder",
                          items |-> <<>>])

\* resourceFolder.items.push(item)
PushItem(folders, resource, it) ==
    [folders EXCEPT ![IndexOfFolder(folders, resource)].items = Append(@, it)]

\* the body of the forEach callback for an item whose URL matches.  uid is
\* the identifier the next uuid() call returns, identifiers being modelled
\* as the rank of the call that made them.
PlaceItem(namespaceMap, namespace, resource, it, uid) ==
    [SetNamespace(namespaceMap, namespace, uid) EXCEPT
        ![IndexOfNamespace(SetNamespace(namespaceMap, namespace, uid), namespace)]
            .value.items =
                PushItem(PushResource(@, resource,
                                      IF IndexOfNamespace(namespaceMap, namespace) = 0
                                      THEN uid + 1 ELSE uid),
                         resource, it)]

\* items.forEach(...) from the i-th item on; firstUid is the identifier of
\* the first folder made
RECURSIVE OrganizeFrom(_, _, _, _)
OrganizeFrom(items, i, namespaceMap, firstUid) ==
    IF i > Len(items) THEN namespaceMap
    ELSE IF ~UrlMatch(items[i].request.url, 1).found
    THEN OrganizeFrom(items, i + 1, namespaceMap, firstUid)
    ELSE OrganizeFrom(items, i + 1,
                      PlaceItem(namespaceMap,
                                UrlMatch(items[i].request.url, 1).namespace,
                                UrlMatch(items[i].request.url, 1).resource,
                                items[i],
                                firstUid + FolderCount(MapValues(namespaceMap), 1)),
                      firstUid)

organizeIntoFolders(items, uid) == MapValues(OrganizeFrom(items, 1, <<>>, uid))

-----------------------------------------------------------------------------
(* transformItemsInCollection, hydrateSeqInCollection, isItemARequest *)

isItemARequest(it) ==
    /\ "request" \in DOMAIN it
    /\ it.type \in {"http-request", "graphql-request"}
    /\ "items" \notin DOMAIN it

\* the request of an item of type http or graphql: params are the query
\* entries with type query, the query member is deleted, and a multipart
\* form entry without type gets the type text
TransformRequest(request) ==
    LET withParams ==
            IF "query" \in DOMAIN request
            THEN [params |-> [q \in 1..Len(request.query) |->
                                [type |-> "query"] @@ request.query[q]]]
                 @@ [k \in (DOMAIN request) \ {"query"} |-> request[k]]
            ELSE request
    IN  IF "body" \in DOMAIN withParams /\ "multipartForm" \in DOMAIN withParams.body
        THEN [withParams EXCEPT !.body.multipartForm =
                [k \in 1..Len(@) |-> IF "type" \in DOMAIN @[k] THEN @[k]
                                     ELSE [type |-> "text"] @@ @[k]]]
        ELSE withParams

RECURSIVE transformItems(_)
transformItems(items) ==
    [i \in 1..Len(items) |->
        LET it == items[i]
            renamed == IF it.type \in {"http", "graphql"}
                       THEN [it EXCEPT !.type = @ \o "-request",
                                       !.request = TransformRequest(@)]
                       ELSE it
        IN  IF "items" \in DOMAIN renamed /\ Len(renamed.items) > 0
            THEN [renamed EXCEPT !.items = transformItems(@)]
            ELSE renamed]

transformItemsInCollection(collection) ==
    [collection EXCEPT !.items = transformItems(@)]

RECURSIVE hydrateSeq_CountsFolders(_, _, _)
hydrateSeq_CountsFolders(items, i, index) ==
    IF i > Len(items) THEN <<>>
    ELSE LET it == items[i]
             unsequenced == isItemARequest(it) /\ ("seq" \notin DOMAIN it \/ it.seq = 0)
             numbered == IF unsequenced THEN [seq |-> index] @@ it ELSE it
             hydrated == IF "items" \in DOMAIN numbered /\ Len(numbered.items) > 0
                         THEN [numbered EXCEPT !.items = hydrateSeq_CountsFolders(@, 1, 1)]
                         ELSE numbered
         IN  <<hydrated>> \o hydrateSeq_CountsFolders(items, i + 1,
                IF unsequenced \/ it.type = "folder" THEN index + 1 ELSE index)

\* each(items, ...) of hydrateSeq from the i-th item on, index being the
\* sequence number the next request without one gets
RECURSIVE hydrateSeq(_, _, _)
hydrateSeq(items, i, index) ==
    IF i > Len(items) THEN <<>>
    ELSE LET it == items[i]
             unsequenced == isItemARequest(it) /\ ("seq" \notin DOMAIN it \/ it.seq = 0)
             numbered == IF unsequenced THEN [seq |-> index] @@ it ELSE it
             hydrated == IF "items" \in DOMAIN numbered /\ Len(numbered.items) > 0
                         THEN [numbered EXCEPT !.items = hydrateSeq(@, 1, 1)]
                         ELSE numbered
         IN  <<hydrated>> \o hydrateSeq(items, i + 1,
                                        IF unsequenced THEN index + 1 ELSE index)

hydrateSeqInCollection(collection) ==
    [collection EXCEPT !.items = hydrateSeq(@, 1, 1)]

InvalidSchemaMessage_Detail == "items[0].request.url is a required field"

\* the message of the error validateSchema throws
InvalidSchemaMessage == "The Collection has an invalid schema"

-----------------------------------------------------------------------------
(* wordpressToBruno: the loop over the routes *)

\* a || b
Or(a, b) == IF Truthy(a) THEN a ELSE b

\* x?.k and x.k of a value that is not null: undefined for a primitive
OptMember(x, k) == IF x[1] = "object" THEN Member(x, k) ELSE Undef

IsNullish(x) == x[1] \in {"null", "undefined"}

\* route.match(/^\/([^/]+\/v\d+)/)?.[1]: the namespace at the start of the
\* route, undefined when there is none
RouteNamespace(r) ==
    LET nameEnd == RunUntil(r, 2, "/")
        verEnd == DigitRunEnd(r, nameEnd + 2)
    IN  IF /\ Ch(r, 1) = "/"
           /\ nameEnd > 2
           /\ StartsAt(r, nameEnd, "/v")
           /\ verEnd > nameEnd + 2
        THEN JStr(SubSeq(r, 2, verEnd - 1))
        ELSE Undef

\* what the head of the loop body does with a route: "continue" when the
\* route is processed, excluded or outside the included namespaces, "throw"
\* when reading routeData.namespace throws, "process" otherwise
RouteDecision(r, routeData, options, processedRoutes) ==
    IF r \in processedRoutes \/ SeqIncludes(options.excludeRoutes, r) THEN "continue"
    ELSE IF ~Truthy(options.includeNamespaces) THEN "process"
    ELSE IF IsNullish(routeData) THEN "throw"
    ELSE LET namespaceMatch == Or(OptMember(routeData, "namespace"), RouteNamespace(r))
         IN  IF ~Truthy(namespaceMatch)
                \/ ~SeqIncludes(options.includeNamespaces[2], namespaceMatch)
             THEN "continue"
             ELSE "process"

\* methods.forEach(...) from the j-th method on.  acc holds the items pushed,
\* the calls of the transformer, the errors logged and the next identifier.
RECURSIVE ProcessMethods(_, _, _, _, _, _, _)
ProcessMethods(r, ep, methods, j, sch, now, acc) ==
    IF j > Len(methods) THEN acc
    ELSE LET m == methods[j]
             skipped == m \in {JStr("OPTIONS"), JStr("HEAD")}
             noString == m[1] # "string"
             throws == noString \/ transformThrows(r, m[2], ep, sch)
             next ==
                IF skipped THEN acc
                ELSE IF throws
                THEN [acc EXCEPT
                        !.calls = Append(@, [route |-> r, method |-> m, returned |-> FALSE]),
                        !.errors = Append(@, [route |-> r, method |-> m]),
                        !.uid = IF noString THEN @ ELSE @ + 1]
                ELSE [acc EXCEPT
                        !.calls = Append(@, [route |-> r, method |-> m, returned |-> TRUE]),
                        !.items = Append(@, [uid |-> acc.uid]
                                    @@ transformWordPressEndpoint(r, m[2], ep, sch, now)),
                        !.uid = @ + 1]
         IN  ProcessMethods(r, ep, methods, j + 1, sch, now, next)

\* endpoints.forEach(...) from the i-th endpoint on: reading the methods of
\* an endpoint that is null or undefined throws, and so does forEach on
\* methods that are no list
RECURSIVE ProcessEndpoints(_, _, _, _, _, _)
ProcessEndpoints(r, endpoints, i, sch, now, acc) ==
    IF i > Len(endpoints) THEN acc
    ELSE LET ep == endpoints[i]
             methods == Or(OptMember(ep, "methods"), JArr(<<>>))
         IN  IF IsNullish(ep) \/ methods[1] # "array"
             THEN [acc EXCEPT !.threw = TRUE]
             ELSE ProcessEndpoints(r, endpoints, i + 1, sch, now,
                                   ProcessMethods(r, ep, methods[2], 1, sch, now, acc))

\* the rest of the loop body once the detailed schema is fetched
ProcessRouteData(r, routeData, detailedSchema, now, acc) ==
    LET detailSchema == OptMember(detailedSchema, "schema")
        detailEndpoints == OptMember(detailedSchema, "endpoints")
        sch == Or(Or(detailSchema, OptMember(routeData, "schema")), JNull)
        endpoints == Or(Or(detailEndpoints, OptMember(routeData, "endpoints")), JArr(<<>>))
    IN  IF IsNullish(routeData) /\ (~Truthy(detailSchema) \/ ~Truthy(detailEndpoints))
        THEN [acc EXCEPT !.threw = TRUE]
        ELSE IF endpoints[1] # "array" THEN [acc EXCEPT !.threw = TRUE]
        ELSE ProcessEndpoints(r, endpoints[2], 1, sch, now, acc)

-----------------------------------------------------------------------------
(* The command line tool: the files writeItems writes *)

\* name.replace(/[^a-zA-Z0-9-_]/g, '-')
RECURSIVE FolderDirName(_, _)
FolderDirName(name, i) ==
    IF i > Len(name) THEN ""
    ELSE (IF IsWord(Ch(name, i)) \/ Ch(name, i) = "-" THEN Ch(name, i) ELSE "-")
         \o FolderDirName(name, i + 1)

\* name.replace(/[^a-zA-Z0-9-_\s]/g, '')
RECURSIVE StripUnsafe(_, _)
StripUnsafe(name, i) ==
    IF i > Len(name) THEN ""
    ELSE (IF IsWord(Ch(name, i)) \/ Ch(name, i) \in {"-", " ", "\n", "\t"}
          THEN Ch(name, i) ELSE "")
         \o StripUnsafe(name, i + 1)

\* s.replace(/\s+/g, '-'): each run of white space becomes one "-"
RECURSIVE SpacesToDash(_, _)
SpacesToDash(s, i) ==
    IF i > Len(s) THEN ""
    ELSE IF Ch(s, i) \in {" ", "\n", "\t"}
         THEN (IF i > 1 /\ Ch(s, i - 1) \in {" ", "\n", "\t"} THEN "" ELSE "-")
              \o SpacesToDash(s, i + 1)
         ELSE Ch(s, i) \o SpacesToDash(s, i + 1)

fileName(name) == toLowerCase(SpacesToDash(StripUnsafe(name, 1), 1))

\* the writeFileSync calls of writeItems(items, parentDir), in order: the
\* path written and the uid of the request written to it
RECURSIVE writeItems(_, _, _)
writeItems(items, i, parentDir) ==
    IF i > Len(items) THEN <<>>
    ELSE LET it == items[i]
             folderPath == parentDir \o "/" \o FolderDirName(it.name, 1)
             written ==
                IF it.type = "folder"
                THEN IF "items" \in DOMAIN it /\ Len(it.items) > 0
                     THEN writeItems(it.items, 1, folderPath)
                     ELSE <<>>
                ELSE IF it.type \in {"http-request", "graphql-request"}
                THEN << [path |-> parentDir \o "/" \o fileName(it.name) \o ".bru",
                         uid |-> it.uid] >>
                ELSE <<>>
         IN  written \o writeItems(items, i + 1, parentDir)

-----------------------------------------------------------------------------
(* Inputs *)

MaxArgs == 2
MaxPathParams == 2

Routes ==
    { "/",
      "/wp/v2",
      "/wp/v2/posts",
      "/wp/v2/posts/(?P<id>[\\d]+)",
      "/wp/v2/posts/(?P<parent>[\\d]+)/revisions",
      "/wp/v2/posts/(?P<parent>[\\d]+)/revisions/(?P<id>[\\d]+)",
      "/wp/v2/posts/(?P<id>[\\d]+)/autosaves",
      "/wp/v2/menu-items",
      "/wp/v2/settings",
      "/wp/v2/users/(?P<user_id>(?:[\\d]+|me))/application-passwords",
      "/wc/v3/products" }

Methods == {"GET", "POST", "PUT", "PATCH", "DELETE", "get", "TRACE"}

RunTimestamp == "2024-01-01T00:00:00.000Z"
Timestamps == {RunTimestamp, "2025-06-30T12:00:00.000Z"}

\* argument definitions as the WordPress index gives them, each with its name
ArgPool ==
    << <<"context",
         JObj(<< <<"type", JStr("string")>>,
                 <<"enum", JArr(<<JStr("view"), JStr("embed"), JStr("edit")>>)>>,
                 <<"default", JStr("view")>> >>)>>,
       <<"id",
         JObj(<< <<"type", JStr("integer")>>,
                 <<"description", JStr("Unique identifier for the post.")>> >>)>>,
       <<"title", JObj(<< <<"type", JStr("string")>> >>)>>,
       <<"status",
         JObj(<< <<"type", JStr("string")>>,
                 <<"enum", JArr(<<JStr("publish"), JStr("draft")>>)>> >>)>>,
       <<"page",
         JObj(<< <<"type", JStr("integer")>>,
                 <<"required", JBool(FALSE)>>,
                 <<"default", JNum(1)>>,
                 <<"description", JStr("Current page of the collection.")>> >>)>>,
       <<"search",
         JObj(<< <<"type", JStr("string")>>,
                 <<"required", JBool(TRUE)>>,
                 <<"minLength", JNum(1)>> >>)>>,
       <<"_embed",
         JObj(<< <<"type", JStr("boolean")>>, <<"required", JStr("true")>> >>)>>,
       <<"force",
         JObj(<< <<"type", JStr("boolean")>>, <<"default", JBool(FALSE)>> >>)>>,
       <<"slug",
         JObj(<< <<"type", JStr("string")>>, <<"readonly", JBool(TRUE)>> >>)>>,
       <<"orderby",
         JObj(<< <<"type", JStr("string")>>,
                 <<"enum", JObj(<< <<"a", JStr("date")>>,
                                   <<"b", JStr("title")>> >>)>> >>)>> >>

\* the args mappings: up to MaxArgs arguments of the pool, in the pool's order
ArgIndexSets == {S \in SUBSET (1..Len(ArgPool)) : Cardinality(S) <= MaxArgs}

RECURSIVE PickArgs(_, _)
PickArgs(S, i) ==
    IF i > Len(ArgPool) THEN <<>>
    ELSE (IF i \in S THEN <<ArgPool[i]>> ELSE <<>>) \o PickArgs(S, i + 1)

ArgsMappings == {JObj(PickArgs(S, 1)) : S \in ArgIndexSets}

Endpoints ==
    {JObj(<< <<"args", a>> >>) : a \in ArgsMappings} \union {JObj(<<>>)}

Schemas ==
    { JNull,
      JObj(<< <<"title", JStr("post")>> >>),
      JObj(<< <<"properties",
                JObj(<< <<"id", JObj(<< <<"type", JStr("integer")>>,
                                        <<"readonly", JBool(TRUE)>> >>)>>,
                        <<"date", JObj(<< <<"type", JStr("string")>>,
                                          <<"format", JStr("date-time")>> >>)>>,
                        <<"slug", JObj(<< <<"type", JStr("string")>> >>)>>,
                        <<"title", JObj(<< <<"type", JStr("object")>>,
                                           <<"readonly", JBool(TRUE)>> >>)>>,
                        <<"content", JObj(<< <<"type", JStr("string")>> >>)>> >>)>> >>) }

NoItem == [name |-> "", type |-> "none"]
NoRun == [pc |-> "none"]
NoResult == <<"pending", "pending">>

\* a call of a helper: the function and the arguments it reads
Call(fn, m, name, pathParams, property, args, sch, now) ==
    [fn |-> fn, m |-> m, name |-> name, pathParams |-> pathParams,
     property |-> property, args |-> args, sch |-> sch, now |-> now,
     type |-> Undef, collection |-> [items |-> <<>>]]

NoCall == Call("none", "", "", <<>>, JObj(<<>>), Undef, JNull, "")

ParamNames == {"id", "slug", "parent", "title"}

\* the sequences over S of length up to n
RECURSIVE SeqsUpTo(_, _)
SeqsUpTo(S, n) ==
    IF n = 0 THEN {<<>>}
    ELSE LET shorter == SeqsUpTo(S, n - 1)
         IN  shorter \union {Append(q, x) : q \in {p \in shorter : Len(p) = n - 1}, x \in S}

\* those without a repeated element
DistinctSeqs(S, n) ==
    {q \in SeqsUpTo(S, n) : \A i, j \in 1..Len(q) : i # j => q[i] # q[j]}

PathParamLists == DistinctSeqs({"id", "slug", "parent"}, MaxPathParams)
BodyPathParamLists == DistinctSeqs({"id", "slug"}, MaxPathParams)

MaxEnum == 2
EnumValues == {JStr("publish"), JStr(""), JNum(0)}

Enums ==
    {JArr(q) : q \in SeqsUpTo(EnumValues, MaxEnum)}
    \union {Undef, JObj(<< <<"a", JStr("date")>>, <<"b", JStr("title")>> >>)}

Types ==
    {Undef, JStr("string"), JStr("integer"), JStr("boolean"), JStr("array"),
     JStr("object"), JStr("date-time")}

Defaults == {Undef, JNum(0), JBool(FALSE), JStr(""), JStr("draft")}

Formats == {Undef, JStr("date-time")}

NestedProperties ==
    JObj(<< <<"raw", JObj(<< <<"type", JStr("string")>> >>)>>,
            <<"rendered", JObj(<< <<"type", JStr("string")>>,
                                  <<"default", JStr("")>> >>)>> >>)

Properties ==
    {JObj(<< <<"type", ty>>, <<"default", d>>, <<"enum", e>>, <<"format", f>> >>) :
        ty \in Types, d \in Defaults, e \in Enums, f \in Formats}
    \union {JObj(<< <<"type", JStr("object")>>, <<"properties", NestedProperties>> >>)}

FieldNames == {"status", "title", "author", "date"}

ClassifyCalls ==
    {Call("getParameterLocation", m, n, pp, JObj(<<>>), Undef, JNull, "") :
        m \in Methods, n \in ParamNames, pp \in PathParamLists}

\* field definitions without enum and default: every type name the switch
\* knows, names it does not know, a list of type names, every format
TypedProperties ==
    {JObj(<< <<"type", ty>>, <<"format", f>> >>) :
        ty \in Types \union {JStr("number"), JStr("bool"), JStr("null"), JStr("float"),
                             JArr(<<JStr("string"), JStr("null")>>)},
        f \in Formats \union {JStr("uri")}}
    \union
    {JObj(<< <<"type", JStr("object")>>, <<"properties", JObj(<<>>)>> >>),
     JObj(<< <<"type", JStr("object")>>,
             <<"properties",
               JObj(<< <<"status", JObj(<< <<"type", JStr("string")>> >>)>>,
                       <<"count", JObj(<< <<"type", JStr("integer")>> >>)>>,
                       <<"protected", JObj(<< <<"type", JStr("bool")>> >>)>>,
                       <<"link", JObj(<< <<"type", JStr("string")>>,
                                         <<"format", JStr("uri")>> >>)>>,
                       <<"title", NestedProperties>>,
                       <<"meta",
                         JObj(<< <<"type", JStr("object")>>,
                                 <<"properties", NestedProperties>> >>)>> >>)>> >>)}

ContextNames ==
    {"status", "title", "name", "content", "slug", "password", "author", "date", "link"}

SynthesizeCalls ==
    {Call("generateExampleValue", "", n, <<>>, p, Undef, JNull, t) :
        n \in FieldNames, p \in Properties, t \in Timestamps}
    \union
    {Call("generateExampleValue", "", n, <<>>, p, Undef, JNull, t) :
        n \in ContextNames, p \in TypedProperties, t \in Timestamps}

\* a resource schema whose writable common fields are also arguments of the
\* pool, with other examples than the arguments give
StatusSchema ==
    JObj(<< <<"properties",
              JObj(<< <<"status", JObj(<< <<"type", JStr("string")>>,
                                          <<"default", JStr("draft")>> >>)>>,
                      <<"title", JObj(<< <<"type", JStr("string")>>,
                                         <<"default", JStr("Untitled")>> >>)>>,
                      <<"excerpt", JObj(<< <<"type", JStr("string")>> >>)>>,
                      <<"search", JObj(<< <<"type", JStr("string")>> >>)>>,
                      <<"link", JObj(<< <<"type", JStr("string")>>,
                                        <<"format", JStr("uri")>> >>)>> >>)>> >>)

ComposeCalls ==
    {Call("generateRequestBody", m, "", pp, JObj(<<>>), a, sch, RunTimestamp) :
        m \in {"GET", "POST", "PUT", "DELETE"}, pp \in BodyPathParamLists,
        a \in ArgsMappings \union {Undef}, sch \in Schemas \union {StatusSchema}}

\* the values a type member holds: the names of the replacement table, JSON
\* Schema type names, names no table knows, values that are no string, and
\* lists of them
MaxTypeList == 2

TypeNames ==
    {"date", "date-time", "email", "hostname", "ipv4", "ipv6", "uri", "url",
     "mixed", "bool", "string", "boolean", "integer", "object", "null",
     "datetime", "Date", "constructor", "toString", ""}

ListedTypes ==
    {JStr("date"), JStr("bool"), JStr("string"), JStr("null"), JStr("valueOf"),
     JArr(<<JStr("uri"), JStr("integer")>>)}

TypeValues ==
    {JStr(n) : n \in TypeNames}
    \union {JNull, JNum(0), JBool(TRUE), JObj(<<>>)}
    \union {JArr(q) : q \in SeqsUpTo(ListedTypes, MaxTypeList)}

NormalizeCalls ==
    {[Call("normalizeWordPressType", "", "", <<>>, JObj(<<>>), Undef, JNull, "")
        EXCEPT !.type = t] : t \in TypeValues}

\* the collections hydrateSeqInCollection is called with: sibling lists of
\* up to MaxItems requests with and without a sequence number, at the top
\* level, beside and inside folders, and inside a folder of a folder
MaxItems == 3

RequestItem(name, type) ==
    [name |-> name, type |-> type,
     request |-> [method |-> "GET", url |-> "{{baseUrl}}/wp/v2/posts"]]

FolderItem(name, items) == [name |-> name, type |-> "folder", items |-> items]

SiblingRequests ==
    {RequestItem("a", "http-request"),
     [seq |-> 5] @@ RequestItem("b", "http-request"),
     [seq |-> 0] @@ RequestItem("c", "graphql-request"),
     RequestItem("d", "graphql-request")}

SiblingLists == SeqsUpTo(SiblingRequests, MaxItems)

HydrateCollections ==
    {[items |-> q] : q \in SiblingLists}
    \union {[items |-> <<RequestItem("a", "http-request"), FolderItem("f", q),
                        RequestItem("d", "graphql-request")>>] : q \in SiblingLists}
    \union {[items |-> <<FolderItem("g", <<FolderItem("f", q),
                                          RequestItem("a", "http-request")>>)>>] :
                q \in SiblingLists}

HydrateCalls ==
    {[Call("hydrateSeqInCollection", "", "", <<>>, JObj(<<>>), Undef, JNull, "")
        EXCEPT !.collection = c] : c \in HydrateCollections}

-----------------------------------------------------------------------------
(* Spec: one call of transformWordPressEndpoint on a discovered endpoint *)

Init ==
    /\ route \in Routes
    /\ method \in Methods
    /\ endpoint \in Endpoints
    /\ schema \in Schemas
    /\ clock = RunTimestamp
    /\ pc = "call"
    /\ item = NoItem
    /\ call = NoCall
    /\ result = NoResult
    /\ run = NoRun

TransformReturns ==
    /\ pc = "call"
    /\ ~transformThrows(route, method, endpoint, schema)
    /\ item' = transformWordPressEndpoint(route, method, endpoint, schema, clock)
    /\ pc' = "returned"
    /\ UNCHANGED <<run, call, result, route, method, endpoint, schema, clock>>

TransformThrows ==
    /\ pc = "call"
    /\ transformThrows(route, method, endpoint, schema)
    /\ pc' = "threw"
    /\ UNCHANGED <<run, call, result, route, method, endpoint, schema, clock, item>>

Next == TransformReturns \/ TransformThrows

Spec == Init /\ [][Next]_vars

-----------------------------------------------------------------------------
(* SpecFn: one call of a helper function on arguments of any shape *)

InitFn ==
    /\ call \in ClassifyCalls \union SynthesizeCalls \union ComposeCalls
                \union NormalizeCalls \union HydrateCalls
    /\ result = NoResult
    /\ route = ""
    /\ method = ""
    /\ endpoint = JObj(<<>>)
    /\ schema = JNull
    /\ clock = RunTimestamp
    /\ pc = "helper"
    /\ item = NoItem
    /\ run = NoRun

Classify ==
    /\ call.fn = "getParameterLocation"
    /\ result = NoResult
    /\ result' = JStr(getParameterLocation(call.m, call.name, call.pathParams))
    /\ UNCHANGED <<run, call, route, method, endpoint, schema, clock, pc, item>>

Synthesize ==
    /\ call.fn = "generateExampleValue"
    /\ result = NoResult
    /\ result' = <<"returned", generateExampleValue(call.property, call.name, call.now)>>
    /\ UNCHANGED <<run, call, route, method, endpoint, schema, clock, pc, item>>

ComposeBody ==
    /\ call.fn = "generateRequestBody"
    /\ result = NoResult
    /\ result' = generateRequestBody(call.args, call.sch, call.m, call.pathParams,
                                     call.now)
    /\ UNCHANGED <<run, call, route, method, endpoint, schema, clock, pc, item>>

Normalize ==
    /\ call.fn = "normalizeWordPressType"
    /\ result = NoResult
    /\ result' = <<"returned", normalizeWordPressType(call.type)>>
    /\ UNCHANGED <<run, call, route, method, endpoint, schema, clock, pc, item>>

Hydrate ==
    /\ call.fn = "hydrateSeqInCollection"
    /\ result = NoResult
    /\ result' = <<"returned", hydrateSeqInCollection(call.collection)>>
    /\ UNCHANGED <<run, call, route, method, endpoint, schema, clock, pc, item>>

NextFn == Classify \/ Synthesize \/ ComposeBody \/ Normalize \/ Hydrate

SpecFn == InitFn /\ [][NextFn]_vars

-----------------------------------------------------------------------------
(* SpecRun: a run of the command line tool on a discovered API index *)

MaxRoutes == 2

EndpointOf(methods, args) ==
    JObj(<< <<"methods", JArr(methods)>>, <<"args", JObj(args)>> >>)

TitleArg == <<"title", JObj(<< <<"type", JStr("string")>> >>)>>

\* an argument whose enum is an object instead of a list
OrderbyArg ==
    <<"orderby", JObj(<< <<"type", JStr("string")>>,
                         <<"enum", JObj(<< <<"a", JStr("date")>> >>)>> >>)>>

SchemaWithProperties == CHOOSE x \in Schemas : x[1] = "object" /\ HasKey(x[2], "properties")

\* the entries of apiIndex.routes the runs draw from: core routes as
\* WordPress lists them, a plugin route without namespace member, the root
\* route, and entries of unexpected shape
IndexEntries ==
    << <<"/wp/v2/posts",
         JObj(<< <<"namespace", JStr("wp/v2")>>,
                 <<"endpoints",
                   JArr(<<EndpointOf(<<JStr("HEAD"), JStr("OPTIONS"), JStr("GET")>>, <<>>),
                          EndpointOf(<<JStr("POST")>>, <<TitleArg>>)>>)>> >>)>>,
       <<"/wp/v2/posts/(?P<id>[\\d]+)",
         JObj(<< <<"namespace", JStr("wp/v2")>>,
                 <<"endpoints",
                   JArr(<<EndpointOf(<<JStr("GET")>>, <<>>),
                          EndpointOf(<<JStr("POST"), JStr("PUT"), JStr("PATCH")>>,
                                     <<TitleArg>>)>>)>> >>)>>,
       <<"/wp/v2/pages",
         JObj(<< <<"namespace", JStr("wp/v2")>>,
                 <<"schema", SchemaWithProperties>>,
                 <<"endpoints",
                   JArr(<<EndpointOf(<<JStr("GET"), JStr("head"), JStr("options")>>,
                                     <<OrderbyArg>>),
                          EndpointOf(<<JNum(7), JStr("DELETE")>>, <<>>)>>)>> >>)>>,
       <<"/wc/v3/products",
         JObj(<< <<"endpoints", JArr(<<EndpointOf(<<JStr("GET")>>, <<>>)>>)>> >>)>>,
       <<"/",
         JObj(<< <<"namespace", JStr("")>>,
                 <<"endpoints", JArr(<<EndpointOf(<<JStr("GET")>>, <<>>)>>)>> >>)>>,
       <<"/wp/v2/users",
         JObj(<< <<"namespace", JStr("wp/v2")>>,
                 <<"endpoints", JArr(<<JNull, EndpointOf(<<JStr("GET")>>, <<>>)>>)>> >>)>>,
       <<"/wp/v2/media", JNull>> >>

\* the sequences of at most n distinct indices of IndexEntries
EntryLists(n) == DistinctSeqs(1..Len(IndexEntries), n)

\* what fetchWordPressSchema gives: an index whose routes are the chosen
\* entries, an index without routes, or an error
ApiIndexes ==
    {JObj(<< <<"namespaces", JArr(<<JStr("wp/v2")>>)>>,
             <<"routes", JObj([k \in 1..Len(q) |-> IndexEntries[q[k]]])>> >>) :
        q \in EntryLists(MaxRoutes)}
    \union {JObj(<< <<"code", JStr("rest_no_route")>> >>), <<"thrown", "Not Found">>}

\* what fetchRouteSchema gives for a route: null after a warning, or the
\* response to the OPTIONS request
DetailedSchemas ==
    {JNull,
     JObj(<< <<"schema", SchemaWithProperties>> >>),
     JObj(<< <<"endpoints", JArr(<<EndpointOf(<<JStr("GET")>>, <<>>)>>)>> >>)}

RunOptions ==
    {[includeNamespaces |-> JNull, excludeRoutes |-> <<>>, fetchSchemas |-> TRUE],
     [includeNamespaces |-> JArr(<<JStr("wp/v2")>>), excludeRoutes |-> <<>>,
      fetchSchemas |-> FALSE],
     [includeNamespaces |-> JNull, excludeRoutes |-> <<"/wp/v2/posts">>,
      fetchSchemas |-> FALSE]}

outputDir == "bruno-collection"

wpApiUrl == "https://example.com/wp-json/"

\* wpApiUrl without its final "/"
baseUrl ==
    IF Ch(wpApiUrl, Len(wpApiUrl)) = "/" THEN SubSeq(wpApiUrl, 1, Len(wpApiUrl) - 1)
    ELSE wpApiUrl

NoCollection == [version |-> "0"]

InitRun ==
    /\ run \in {[pc |-> "fetchIndex", apiIndex |-> ix, options |-> o, r |-> 0,
                 processedRoutes |-> {}, detailedSchema |-> JNull,
                 brunoItems |-> <<>>, calls |-> <<>>, errors |-> <<>>, uid |-> 1,
                 steps |-> <<>>, fetched |-> <<>>, organizedItems |-> <<>>,
                 collection |-> NoCollection, normalized |-> <<>>,
                 error |-> "", files |-> <<>>] :
                    ix \in ApiIndexes, o \in RunOptions}
    /\ call = NoCall
    /\ result = NoResult
    /\ route = ""
    /\ method = ""
    /\ endpoint = JObj(<<>>)
    /\ schema = JNull
    /\ clock = RunTimestamp
    /\ pc = "run"
    /\ item = NoItem

Others == <<call, result, route, method, endpoint, schema, clock, pc, item>>

\* Object.entries(apiIndex.routes)
RouteEntries == Member(run.apiIndex, "routes")[2]

Failed(message) == [run EXCEPT !.pc = "failed", !.error = message]

\* fetchWordPressSchema throws: the run ends with its error
FetchIndexThrows ==
    /\ run.pc = "fetchIndex"
    /\ run.apiIndex[1] = "thrown"
    /\ run' = Failed("Error fetching WordPress schema: " \o run.apiIndex[2])
    /\ UNCHANGED Others

NoRoutes ==
    /\ run.pc = "fetchIndex"
    /\ run.apiIndex[1] # "thrown"
    /\ ~Truthy(OptMember(run.apiIndex, "routes"))
    /\ run' = Failed("Invalid WordPress REST API response - no routes found")
    /\ UNCHANGED Others

FetchIndex ==
    /\ run.pc = "fetchIndex"
    /\ run.apiIndex[1] # "thrown"
    /\ Truthy(OptMember(run.apiIndex, "routes"))
    /\ run' = [run EXCEPT !.pc = "route", !.r = 1]
    /\ UNCHANGED Others

AtRoute ==
    /\ run.pc = "route"
    /\ run.r <= Len(RouteEntries)

Decision ==
    RouteDecision(RouteEntries[run.r][1], RouteEntries[run.r][2], run.options,
                  run.processedRoutes)

ContinueRoute ==
    /\ AtRoute
    /\ Decision = "continue"
    /\ run' = [run EXCEPT !.r = @ + 1]
    /\ UNCHANGED Others

RouteDataThrows ==
    /\ AtRoute
    /\ Decision = "throw"
    /\ run' = Failed("TypeError")
    /\ UNCHANGED Others

\* await fetchRouteSchema(...), or null without the fetchSchemas option
FetchRouteSchema ==
    /\ AtRoute
    /\ Decision = "process"
    /\ \E d \in DetailedSchemas :
            /\ run.options.fetchSchemas \/ d = JNull
            /\ run' = [run EXCEPT !.pc = "endpoints", !.detailedSchema = d,
                                  !.fetched = Append(@, <<RouteEntries[run.r][1], d>>),
                                  !.steps = IF run.options.fetchSchemas
                                            THEN Append(@, "fetchRouteSchema") ELSE @]
    /\ UNCHANGED Others

Processed ==
    ProcessRouteData(RouteEntries[run.r][1], RouteEntries[run.r][2],
                     run.detailedSchema, clock,
                     [items |-> run.brunoItems, calls |-> run.calls,
                      errors |-> run.errors, uid |-> run.uid, threw |-> FALSE])

\* the endpoints and methods of the route, then processedRoutes.add(route)
ProcessRoute ==
    /\ run.pc = "endpoints"
    /\ \E done \in {Processed} :
            /\ ~done.threw
            /\ run' = [run EXCEPT !.pc = "route", !.r = @ + 1,
                                  !.processedRoutes = @ \union {RouteEntries[run.r][1]},
                                  !.brunoItems = done.items,
                                  !.calls = done.calls,
                                  !.errors = done.errors,
                                  !.uid = done.uid]
    /\ UNCHANGED Others

\* an error thrown outside the try block of the loop over the methods
ProcessRouteThrows ==
    /\ run.pc = "endpoints"
    /\ \E done \in {Processed} :
            /\ done.threw
            /\ run' = [Failed("TypeError") EXCEPT !.brunoItems = done.items,
                                                  !.calls = done.calls,
                                                  !.errors = done.errors,
                                                  !.uid = done.uid]
    /\ UNCHANGED Others

Organize_Streaming ==
    /\ run.pc = "route"
    /\ LET organizedItems == organizeIntoFolders(run.brunoItems, run.uid)
       IN  run' = [run EXCEPT !.pc = "assemble",
                              !.organizedItems = organizedItems,
                              !.uid = @ + FolderCount(organizedItems, 1),
                              !.steps = Append(@, "organizeIntoFolders")]
    /\ UNCHANGED Others

\* const organizedItems = organizeIntoFolders(brunoItems), after the loop
Organize ==
    /\ run.pc = "route"
    /\ run.r > Len(RouteEntries)
    /\ LET organizedItems == organizeIntoFolders(run.brunoItems, run.uid)
       IN  run' = [run EXCEPT !.pc = "assemble",
                              !.organizedItems = organizedItems,
                              !.uid = @ + FolderCount(organizedItems, 1),
                              !.steps = Append(@, "organizeIntoFolders")]
    /\ UNCHANGED Others

\* the variable of the Default environment with the n-th identifier
Variable(n, name, secret) ==
    [uid |-> n, name |-> name, value |-> IF name = "baseUrl" THEN baseUrl ELSE "",
     type |-> "text", enabled |-> TRUE, secret |-> secret]

\* the collection and its Default environment
Assemble ==
    /\ run.pc = "assemble"
    /\ run' = [run EXCEPT
                !.pc = "transformItems",
                !.uid = @ + 5,
                !.steps = Append(@, "brunoCollection"),
                !.collection =
                    [version |-> "1", uid |-> run.uid,
                     name |-> "WordPress API Collection",
                     items |-> run.organizedItems,
                     environments |->
                        << [uid |-> run.uid + 1, name |-> "Default",
                            variables |->
                                <<Variable(run.uid + 2, "baseUrl", FALSE),
                                  Variable(run.uid + 3, "username", FALSE),
                                  Variable(run.uid + 4, "password", TRUE)>>] >>]]
    /\ UNCHANGED Others

TransformItems ==
    /\ run.pc = "transformItems"
    /\ run' = [run EXCEPT !.pc = "hydrateSeq",
                          !.collection = transformItemsInCollection(@),
                          !.normalized = Append(@, [fn |-> "transformItemsInCollection",
                                                    arg |-> run.collection]),
                          !.steps = Append(@, "transformItemsInCollection")]
    /\ UNCHANGED Others

HydrateSeq ==
    /\ run.pc = "hydrateSeq"
    /\ run' = [run EXCEPT !.pc = "validateSchema",
                          !.collection = hydrateSeqInCollection(@),
                          !.normalized = Append(@, [fn |-> "hydrateSeqInCollection",
                                                    arg |-> run.collection]),
                          !.steps = Append(@, "hydrateSeqInCollection")]
    /\ UNCHANGED Others

\* collectionSchema.validateSync accepts the collection
ValidateReturns ==
    /\ run.pc = "validateSchema"
    /\ run' = [run EXCEPT !.pc = "returned",
                          !.normalized = Append(@, [fn |-> "validateSchema",
                                                    arg |-> run.collection]),
                          !.steps = Append(@, "validateSchema")]
    /\ UNCHANGED Others

\* collectionSchema.validateSync throws: the detail is logged, the error
\* thrown has the fixed message, and no collection is returned
ValidateThrows ==
    /\ run.pc = "validateSchema"
    /\ run' = [Failed(InvalidSchemaMessage) EXCEPT
                    !.normalized = Append(@, [fn |-> "validateSchema",
                                              arg |-> run.collection]),
                    !.steps = Append(@, "validateSchema"),
                    !.collection = NoCollection]
    /\ UNCHANGED Others

\* the command line tool writes the collection wordpressToBruno returned
WriteCollection ==
    /\ run.pc = "returned"
    /\ run' = [run EXCEPT
                !.pc = "written",
                !.files =
                    << [path |-> outputDir \o "/bruno.json", uid |-> 0],
                       [path |-> outputDir \o "/collection.bru", uid |-> 0] >>
                    \o [e \in 1..Len(run.collection.environments) |->
                            [path |-> outputDir \o "/environments/"
                                      \o SpacesToDash(toLowerCase(
                                            run.collection.environments[e].name), 1)
                                      \o ".bru",
                             uid |-> run.collection.environments[e].uid]]
                    \o writeItems(run.collection.items, 1, outputDir)]
    /\ UNCHANGED Others

NextRun ==
    \/ FetchIndexThrows
    \/ NoRoutes
    \/ FetchIndex
    \/ ContinueRoute
    \/ RouteDataThrows
    \/ FetchRouteSchema
    \/ ProcessRoute
    \/ ProcessRouteThrows
    \/ Organize
    \/ Assemble
    \/ TransformItems
    \/ HydrateSeq
    \/ ValidateReturns
    \/ ValidateThrows
    \/ WriteCollection

SpecRun == InitRun /\ [][NextRun]_vars

-----------------------------------------------------------------------------
(* The parameter entries of a descriptor, checked under Spec *)

\* C22: in every descriptor each path parameter entry is enabled and each
\* query parameter entry made from an argument is enabled exactly when the
\* argument's required member is the boolean true, not when it is absent or
\* no boolean; isParameterRequired is true for every field definition when
\* the parameter is a path parameter.
ParamsEnabledByRequired ==
    pc = "returned" =>
        LET params == item.request.params
            args == ArgsOf(endpoint)[2]
            pathParams == extractPathParameters(route)
            isGet == toUpperCase(method) = "GET"
            \* the arguments that get a parameter entry, in their order
            entered == SelectSeq(args, LAMBDA a : /\ a[1] # "context"
                                                  /\ isGet \/ SeqIncludes(pathParams, a[1]))
        IN  /\ Len(params) >= Len(entered)
            /\ \A j \in 1..Len(entered) :
                    /\ params[j].name = entered[j][1]
                    /\ IF SeqIncludes(pathParams, entered[j][1])
                       THEN params[j].type = "path" /\ params[j].enabled = TRUE
                       ELSE /\ params[j].type = "query"
                            /\ params[j].enabled =
                                    (Member(entered[j][2], "required") = JBool(TRUE))
            /\ \A p \in 1..Len(params) : params[p].type = "path" => params[p].enabled
            /\ \A a \in 1..Len(args) :
                    /\ isParameterRequired(args[a][2], TRUE)
                    /\ isParameterRequired(args[a][2], FALSE) =
                            (Member(args[a][2], "required") = JBool(TRUE))

\* a GET whose argument search is required and whose argument _embed has the
\* string "true" as required member: the first is enabled, the second not
ParamsEnabledWitness ==
    /\ pc = "returned"
    /\ toUpperCase(method) = "GET"
    /\ Len(item.request.params) >= 2
    /\ item.request.params[1].name = "search"
    /\ item.request.params[1].enabled
    /\ item.request.params[2].name = "_embed"
    /\ Member(Member(ArgsOf(endpoint), "_embed"), "required") = JStr("true")
    /\ ~item.request.params[2].enabled

-----------------------------------------------------------------------------
(* The arguments of an endpoint in its descriptor, checked under Spec *)

\* the argument names a descriptor carries: the names of its parameter
\* entries of the given type, and the keys of its JSON body
EntryNames(type) ==
    {item.request.params[p].name :
        p \in {q \in 1..Len(item.request.params) : item.request.params[q].type = type}}

BodyKeys ==
    IF item.request.body.mode = "json"
    THEN {k \in {a[1] : a \in {ArgPool[i] : i \in 1..Len(ArgPool)}} :
            HasKey(JSONParse(item.request.body.json)[2], k)}
    ELSE {}

\* the arguments of the endpoint other than context and the read-only ones
CarriedArguments ==
    {a[1] : a \in {b \in {ArgsOf(endpoint)[2][i] : i \in 1..Len(ArgsOf(endpoint)[2])} :
                    b[1] # "context" /\ Member(b[2], "readonly") # JBool(TRUE)}}

\* C24: no argument is lost by the transformation: for each of the methods
\* GET, POST, PUT, PATCH and DELETE and every argument of the endpoint other
\* than context and the read-only fields, the argument's name is in the
\* descriptor as a path parameter entry, as a query parameter entry or as a
\* key of the JSON body.
NoArgumentLost ==
    (pc = "returned" /\ method \in {"GET", "POST", "PUT", "PATCH", "DELETE"}) =>
        CarriedArguments \subseteq
            (EntryNames("path") \union EntryNames("query") \union BodyKeys)

-----------------------------------------------------------------------------
(* Failure of the transformer, checked under Spec *)

\* C19: transformWordPressEndpoint does not fail on malformed input: for
\* every route, method, endpoint and schema, field definitions without type
\* or description, with an enum that is no list, and schemas without
\* properties included, it raises no error and returns a descriptor.
TransformNeverFails ==
    /\ pc # "threw"
    /\ pc = "returned" =>
            /\ item.type = "http-request"
            /\ item.request.method = toUpperCase(method)
            /\ \A p \in 1..Len(item.request.params) :
                    item.request.params[p].name # ""

-----------------------------------------------------------------------------
(* Properties of a run, checked under SpecRun *)

Organized == \E k \in 1..Len(run.steps) : run.steps[k] = "organizeIntoFolders"

\* the first occurrence of each element of a sequence, in order
RECURSIVE FirstSeen(_, _)
FirstSeen(seq, i) ==
    IF i > Len(seq) THEN <<>>
    ELSE IF \E j \in 1..(i - 1) : seq[j] = seq[i]
         THEN FirstSeen(seq, i + 1)
         ELSE <<seq[i]>> \o FirstSeen(seq, i + 1)

\* what the organizer's regular expression finds in the url of each descriptor
UrlKeys == [k \in 1..Len(run.brunoItems) |-> UrlMatch(run.brunoItems[k].request.url, 1)]

\* the positions of the input list whose descriptors organizeIntoFolders files
FiledItems ==
    SelectSeq([k \in 1..Len(run.brunoItems) |-> k], LAMBDA k : UrlKeys[k].found)

NamesOf(seq) == [k \in 1..Len(seq) |-> seq[k].name]

\* names and requests of a tree of folders, without the folders' uids
RECURSIVE Shape(_)
Shape(items) ==
    [k \in 1..Len(items) |->
        IF items[k].type = "folder"
        THEN [name |-> items[k].name, items |-> Shape(items[k].items)]
        ELSE items[k]]

\* the tree in first-seen order: namespaces, then resources, then descriptors
FirstSeenTree ==
    LET keys == UrlKeys
        filed == FiledItems
        namespaces == FirstSeen([j \in 1..Len(filed) |-> keys[filed[j]].namespace], 1)
    IN  [n \in 1..Len(namespaces) |->
            LET inNamespace == SelectSeq(filed, LAMBDA k : keys[k].namespace = namespaces[n])
                resources == FirstSeen([j \in 1..Len(inNamespace) |->
                                            keys[inNamespace[j]].resource], 1)
            IN  [name |-> SlashesToDashes(namespaces[n], 1),
                 items |-> [f \in 1..Len(resources) |->
                    LET inResource == SelectSeq(inNamespace,
                                        LAMBDA k : keys[k].resource = resources[f])
                    IN  [name |-> resources[f],
                         items |-> [j \in 1..Len(inResource) |->
                                        run.brunoItems[inResource[j]]]]]]]

\* C12: organizeIntoFolders returns the namespace folders in the order their
\* namespaces were first seen in the input list, in each of them the
\* resource folders in the order the resources were first seen, and in each
\* resource folder the descriptors in input order; descriptors of
\* /wp/v2/posts and /wp/v2/pages in either order give one namespace folder
\* whose resource folders follow the order of first encounter.
OrganizedInFirstSeenOrder ==
    Organized =>
        LET folders == run.organizedItems
            urls == [k \in 1..Len(run.brunoItems) |-> run.brunoItems[k].request.url]
        IN  /\ Shape(folders) = FirstSeenTree
            /\ (/\ urls # <<>>
                /\ \A k \in 1..Len(urls) : urls[k] \in {"{{baseUrl}}/wp/v2/posts",
                                                         "{{baseUrl}}/wp/v2/pages"}) =>
                    /\ Len(folders) = 1
                    /\ NamesOf(folders[1].items) =
                            FirstSeen([k \in 1..Len(urls) |->
                                        IF urls[k] = "{{baseUrl}}/wp/v2/posts"
                                        THEN "posts" ELSE "pages"], 1)

\* descriptors of pages came before those of posts and the one namespace
\* folder holds the resource folders pages and posts, in that order
OrganizedWitness ==
    /\ Organized
    /\ Len(run.brunoItems) >= 3
    /\ run.brunoItems[1].request.url = "{{baseUrl}}/wp/v2/pages"
    /\ run.brunoItems[Len(run.brunoItems)].request.url = "{{baseUrl}}/wp/v2/posts"
    /\ NamesOf(run.organizedItems) = <<"wp-v2">>
    /\ NamesOf(run.organizedItems[1].items) = <<"pages", "posts">>

\* the pieces of s between its "/" characters
RECURSIVE Segments(_, _, _)
Segments(s, i, cur) ==
    IF i > Len(s) THEN <<cur>>
    ELSE IF Ch(s, i) = "/" THEN <<cur>> \o Segments(s, i + 1, "")
    ELSE Segments(s, i + 1, cur \o Ch(s, i))

IsVersionSegment(seg) ==
    /\ Len(seg) >= 2
    /\ Ch(seg, 1) = "v"
    /\ \A j \in 2..Len(seg) : IsDigit(Ch(seg, j))

\* the part of a segment before its first ":" or "?"
RECURSIVE ResourcePart(_, _)
ResourcePart(seg, i) ==
    IF i > Len(seg) \/ Ch(seg, i) \in {":", "?"} THEN ""
    ELSE Ch(seg, i) \o ResourcePart(seg, i + 1)

\* a url has the shape when some segment after a "/" is followed by a
\* segment v<digits> and a segment that starts a resource name; the first
\* such segment names the namespace
UrlShape(url) ==
    LET segs == Segments(url, 1, "")
        starts == {k \in 2..(Len(segs) - 2) :
                        /\ segs[k] # ""
                        /\ IsVersionSegment(segs[k + 1])
                        /\ ResourcePart(segs[k + 2], 1) # ""}
    IN  IF starts = {} THEN [found |-> FALSE, folder |-> "", resource |-> ""]
        ELSE LET k == CHOOSE k \in starts : \A o \in starts : k <= o
             IN  [found |-> TRUE, folder |-> segs[k] \o "-" \o segs[k + 1],
                  resource |-> ResourcePart(segs[k + 2], 1)]

RECURSIVE Flatten(_, _)
Flatten(seqs, i) == IF i > Len(seqs) THEN <<>> ELSE seqs[i] \o Flatten(seqs, i + 1)

\* the requests of a two-level tree, each with the names of its folders
Leaves(folders) ==
    Flatten([n \in 1..Len(folders) |->
        Flatten([f \in 1..Len(folders[n].items) |->
            [j \in 1..Len(folders[n].items[f].items) |->
                [namespace |-> folders[n].name,
                 resource |-> folders[n].items[f].name,
                 item |-> folders[n].items[f].items[j]]]], 1)], 1)

\* C13: every descriptor of the input list whose url has the shape
\* <namespace>/v<digits>/<resource> is in the tree exactly once, in the
\* resource folder of its own resource inside the folder of its own
\* namespace; a descriptor without the shape is nowhere in the tree; the
\* tree holds no request that was not in the input and no empty folder.
OrganizedOwnership ==
    Organized =>
        LET folders == run.organizedItems
            leaves == Leaves(folders)
            items == run.brunoItems
            shapes == [k \in 1..Len(items) |-> UrlShape(items[k].request.url)]
        IN  /\ \A n \in 1..Len(folders) :
                    /\ folders[n].type = "folder"
                    /\ folders[n].items # <<>>
                    /\ \A f \in 1..Len(folders[n].items) :
                            /\ folders[n].items[f].type = "folder"
                            /\ folders[n].items[f].items # <<>>
                            /\ \A j \in 1..Len(folders[n].items[f].items) :
                                    folders[n].items[f].items[j].type # "folder"
            /\ \A k \in 1..Len(items) :
                    LET at == {j \in 1..Len(leaves) : leaves[j].item = items[k]}
                    IN  IF shapes[k].found
                        THEN /\ Cardinality(at) = 1
                             /\ \A j \in at :
                                    /\ leaves[j].namespace = shapes[k].folder
                                    /\ leaves[j].resource = shapes[k].resource
                        ELSE at = {}
            /\ \A j \in 1..Len(leaves) :
                    \E k \in 1..Len(items) : items[k] = leaves[j].item

\* a run that filed the descriptors of one route and left out the one of
\* the route "/"
OwnershipWitness ==
    /\ Organized
    /\ Len(run.organizedItems) = 1
    /\ \E k \in 1..Len(run.brunoItems) :
            /\ run.brunoItems[k].request.url = "{{baseUrl}}/"
            /\ \A j \in 1..Len(Leaves(run.organizedItems)) :
                    Leaves(run.organizedItems)[j].item # run.brunoItems[k]

\* the files that hold a request of the collection's tree
RequestFiles ==
    SelectSeq(run.files,
              LAMBDA w : \E j \in 1..Len(Leaves(run.collection.items)) :
                            Leaves(run.collection.items)[j].item.uid = w.uid)

\* C14: no two requests of the tree are written to the same file path, and
\* the request files on disk after the run are as many as the requests of
\* the tree.
NoTwoRequestsShareAFile ==
    run.pc = "written" =>
        /\ \A a, b \in 1..Len(RequestFiles) :
                RequestFiles[a].path = RequestFiles[b].path => a = b
        /\ Cardinality({RequestFiles[a].path : a \in 1..Len(RequestFiles)}) =
                Len(Leaves(run.collection.items))

\* the endpoint entries the loop reads for the k-th route it fetched
EndpointsRead(k) ==
    LET routeData == Get(Member(run.apiIndex, "routes")[2], run.fetched[k][1])
        listed == Or(Or(OptMember(run.fetched[k][2], "endpoints"),
                        OptMember(routeData, "endpoints")), JArr(<<>>))
    IN  IF listed[1] = "array" THEN listed[2] ELSE <<>>

MethodsListed(ep) ==
    IF ep[1] = "object" /\ OptMember(ep, "methods")[1] = "array"
    THEN Member(ep, "methods")[2] ELSE <<>>

ReturnedCalls == SelectSeq(run.calls, LAMBDA c : c.returned)

\* C15: an error raised while one (route, method) endpoint is processed,
\* an endpoint entry or a route entry of unexpected shape included, is
\* caught and logged, leaves no descriptor for that endpoint and does not
\* end the run: every other method and every other route is still processed
\* and has its descriptor.
EndpointErrorsDoNotAbort ==
    /\ run.pc = "failed" =>
            run.error \in {"Error fetching WordPress schema: Not Found",
                           "Invalid WordPress REST API response - no routes found",
                           "The Collection has an invalid schema"}
    /\ Len(run.brunoItems) = Len(ReturnedCalls)
    /\ \A c \in 1..Len(run.calls) :
            ~run.calls[c].returned =>
                \E e \in 1..Len(run.errors) :
                    /\ run.errors[e].route = run.calls[c].route
                    /\ run.errors[e].method = run.calls[c].method
    /\ Organized =>
            /\ \A k \in 1..Len(RouteEntries) :
                    \/ RouteEntries[k][1] \in run.processedRoutes
                    \/ RouteDecision(RouteEntries[k][1], RouteEntries[k][2],
                                     run.options, {}) = "continue"
            /\ \A k \in 1..Len(run.fetched) :
                    \A e \in 1..Len(EndpointsRead(k)) :
                        \A j \in 1..Len(MethodsListed(EndpointsRead(k)[e])) :
                            LET m == MethodsListed(EndpointsRead(k)[e])[j]
                            IN  m \notin {JStr("OPTIONS"), JStr("HEAD")} =>
                                    \E c \in 1..Len(run.calls) :
                                        /\ run.calls[c].route = run.fetched[k][1]
                                        /\ run.calls[c].method = m

\* C16: whatever method names the endpoints of the index list,
\* transformWordPressEndpoint is never called with a HEAD or OPTIONS method
\* and no request of the final collection has the method HEAD or OPTIONS.
NeverHeadOrOptions ==
    /\ \A c \in 1..Len(run.calls) :
            run.calls[c].method[1] = "string" =>
                toUpperCase(run.calls[c].method[2]) \notin {"HEAD", "OPTIONS"}
    /\ run.pc \in {"returned", "written"} =>
            \A j \in 1..Len(Leaves(run.collection.items)) :
                Leaves(run.collection.items)[j].item.request.method
                    \notin {"HEAD", "OPTIONS"}

NormalizationSteps ==
    <<"transformItemsInCollection", "hydrateSeqInCollection", "validateSchema">>

\* what the k-th normalization step returns for its argument when it returns
StepResult(k, collection) ==
    IF k = 1 THEN transformItemsInCollection(collection)
    ELSE IF k = 2 THEN hydrateSeqInCollection(collection)
    ELSE collection

\* C17: the three normalization steps are called in the order
\* transformItemsInCollection, hydrateSeqInCollection, validateSchema, the
\* first on the assembled collection and each other one on the result of the
\* step before; when validateSchema throws, the run ends with the message
\* "The Collection has an invalid schema" and returns no collection; when
\* it returns, the collection returned is the validated document.
NormalizationInOrder ==
    /\ Len(run.normalized) <= 3
    /\ \A k \in 1..Len(run.normalized) :
            /\ run.normalized[k].fn = NormalizationSteps[k]
            /\ k = 1 => run.normalized[k].arg.items = run.organizedItems
            /\ k > 1 => run.normalized[k].arg =
                            StepResult(k - 1, run.normalized[k - 1].arg)
    /\ run.pc \in {"returned", "written"} =>
            /\ Len(run.normalized) = 3
            /\ run.collection = run.normalized[3].arg
            /\ run.error = ""
    /\ (run.pc = "failed" /\ Len(run.normalized) = 3) =>
            /\ run.error = "The Collection has an invalid schema"
            /\ run.collection = NoCollection
            /\ run.files = <<>>

\* validateSchema threw for a collection with requests in it
NormalizationWitness ==
    /\ run.pc = "failed"
    /\ Len(run.normalized) = 3
    /\ run.error = "The Collection has an invalid schema"
    /\ Len(Leaves(run.normalized[3].arg.items)) >= 2

Times(step) == Cardinality({k \in 1..Len(run.steps) : run.steps[k] = step})

PositionOf(step) == CHOOSE k \in 1..Len(run.steps) : run.steps[k] = step

AssemblerSteps ==
    {"brunoCollection", "transformItemsInCollection", "hydrateSeqInCollection",
     "validateSchema"}

\* the organizer and every step of the assembler have run, once each
AllOnce ==
    /\ Times("organizeIntoFolders") = 1
    /\ \A step \in AssemblerSteps : Times(step) = 1

\* the run has ended: its files are written or it has failed
RunEnded == run.pc \in {"written", "failed"}

\* the run has ended after the loop over its routes had ended
RunEndedAfterTheLoop ==
    \/ run.pc = "written"
    \/ run.pc = "failed" /\ run.error = "The Collection has an invalid schema"

\* never twice, and only after every route, endpoint and method was
\* processed and every schema fetched
OnlyAfterTheLoop ==
    /\ Times("organizeIntoFolders") <= 1
    /\ \A step \in AssemblerSteps :
            /\ Times(step) <= 1
            /\ Times(step) = 1 =>
                    /\ Organized
                    /\ PositionOf("organizeIntoFolders") < PositionOf(step)
    /\ Organized =>
            /\ run.r > Len(RouteEntries)
            /\ \A k \in 1..Len(RouteEntries) :
                    \/ RouteEntries[k][1] \in run.processedRoutes
                    \/ RouteDecision(RouteEntries[k][1], RouteEntries[k][2],
                                     run.options, {}) = "continue"
            /\ {run.fetched[k][1] : k \in 1..Len(run.fetched)} = run.processedRoutes
            /\ \A k \in 1..Len(run.steps) :
                    run.steps[k] = "fetchRouteSchema" =>
                        k < PositionOf("organizeIntoFolders")
            /\ run.options.fetchSchemas =>
                    Times("fetchRouteSchema") = Len(run.fetched)

\* once organization has started no descriptor is produced or added
NoDescriptorAfterOrganize ==
    Organized =>
        /\ run.brunoItems' = run.brunoItems
        /\ run.calls' = run.calls
        /\ run.fetched' = run.fetched
        /\ run.organizedItems' = run.organizedItems

\* C18 as stated: in every run the organizer is invoked exactly once and the
\* assembler steps exactly once, both only after every route and every
\* (endpoint, method) was processed, schema fetches included, and no
\* descriptor is produced or added after organization has started.
OrganizedOnceInEveryRun ==
    /\ [](OnlyAfterTheLoop /\ (RunEnded => AllOnce))
    /\ [][NoDescriptorAfterOrganize]_vars

\* C18, amended: in no run is the organizer or an assembler step invoked
\* twice or before every route and every (endpoint, method) was processed,
\* schema fetches included; no descriptor is produced or added after
\* organization has started; and every run that ends after its loop over
\* the routes has ended has invoked the organizer and each assembler step
\* exactly once.
OrganizedOnceAfterTheLoop ==
    /\ [](OnlyAfterTheLoop /\ (RunEndedAfterTheLoop => AllOnce))
    /\ [][NoDescriptorAfterOrganize]_vars

\* a run that fetched the schemas of two routes, organized and assembled
OrganizedOnceWitness ==
    /\ run.pc = "written"
    /\ AllOnce
    /\ Times("fetchRouteSchema") = 2
    /\ Len(run.brunoItems) >= 3

-----------------------------------------------------------------------------
(* Properties of the helper functions, checked under SpecFn *)

\* C1: getParameterLocation returns "path" for a name of the path-parameter
\* list whatever the method, and otherwise "query" for GET and "body" for
\* every other method; it never returns "body" for a GET.
ClassifyRule ==
    (call.fn = "getParameterLocation" /\ result[1] = "string") =>
        LET inPath == \E i \in 1..Len(call.pathParams) : call.pathParams[i] = call.name
            isGet == call.m \in {"GET", "get"}
        IN  /\ inPath => result[2] = "path"
            /\ (~inPath /\ isGet) => result[2] = "query"
            /\ (~inPath /\ ~isGet) => result[2] = "body"
            /\ isGet => result[2] # "body"

\* a GET whose parameter is a path parameter was classified "path"
ClassifyRuleWitness ==
    /\ call.fn = "getParameterLocation"
    /\ call.m = "GET"
    /\ call.name = "id"
    /\ call.pathParams = <<"parent", "id">>
    /\ result = JStr("path")

\* C4: the mapping parsed from the JSON text generateRequestBody returns has
\* no key that is a path-parameter name and no key naming a field marked
\* read-only in the arguments or in the resource schema.
ComposeBodyOmitsPathAndReadonly ==
    (call.fn = "generateRequestBody" /\ result[1] = "{}") =>
        LET parsed == JSONParse(result)[2]
            argDefs == IF call.args[1] = "object" THEN call.args[2] ELSE <<>>
            props == IF call.sch[1] = "object" /\ Get(call.sch[2], "properties")[1] = "object"
                     THEN Get(call.sch[2], "properties")[2] ELSE <<>>
            readonlyIn(defs, k) ==
                \E i \in 1..Len(defs) : defs[i][1] = k /\ Member(defs[i][2], "readonly") = JBool(TRUE)
        IN  \A n \in 1..Len(parsed) :
                /\ \A i \in 1..Len(call.pathParams) : call.pathParams[i] # parsed[n][1]
                /\ ~readonlyIn(argDefs, parsed[n][1])
                /\ ~readonlyIn(props, parsed[n][1])

\* the key names an argument that the argument pass puts in the body
KeyFromArgs(k) ==
    /\ k # "context"
    /\ \A i \in 1..Len(call.pathParams) : call.pathParams[i] # k
    /\ call.m \notin {"GET", "get"}
    /\ call.args[1] = "object"
    /\ \E i \in 1..Len(call.args[2]) :
            /\ call.args[2][i][1] = k
            /\ Member(call.args[2][i][2], "readonly") # JBool(TRUE)

\* the key names a common writable field of the resource schema
KeyFromSchema(k) ==
    /\ k \in {"title", "content", "excerpt", "status", "author", "slug", "password",
               "name", "description"}
    /\ call.sch[1] = "object"
    /\ Get(call.sch[2], "properties")[1] = "object"
    /\ \E i \in 1..Len(Get(call.sch[2], "properties")[2]) :
            /\ Get(call.sch[2], "properties")[2][i][1] = k
            /\ Member(Get(call.sch[2], "properties")[2][i][2], "readonly") # JBool(TRUE)

\* C21: every key of the mapping generateRequestBody builds is the name of
\* an argument that is not context, not a path parameter, not read-only and
\* classified body, or a name of the allow-list that the resource schema
\* holds and does not mark read-only; no other schema field is inserted, and
\* a key the argument pass populated keeps the value that pass gave it.
ComposeBodyKeys ==
    (call.fn = "generateRequestBody" /\ result[1] = "{}") =>
        LET parsed == JSONParse(result)[2]
            withoutSchema ==
                generateRequestBody(call.args, JNull, call.m, call.pathParams, call.now)
        IN  \A n \in 1..Len(parsed) :
                /\ KeyFromArgs(parsed[n][1]) \/ KeyFromSchema(parsed[n][1])
                /\ KeyFromArgs(parsed[n][1]) =>
                        /\ withoutSchema[1] = "{}"
                        /\ parsed[n][2] = Get(JSONParse(withoutSchema)[2], parsed[n][1])

\* the argument status and the schema field status both apply: the body has
\* the argument's example, and the schema's fields title and excerpt
ComposeBodyKeysWitness ==
    /\ call.fn = "generateRequestBody"
    /\ call.m = "POST"
    /\ call.sch = StatusSchema
    /\ result[1] = "{}"
    /\ Get(JSONParse(result)[2], "status") = JStr("publish")
    /\ Get(JSONParse(result)[2], "title") = JStr("Untitled")
    /\ Get(JSONParse(result)[2], "excerpt") # Undef
    /\ Get(JSONParse(result)[2], "link") = Undef

\* a request without a sequence number; 0 is none, the numbers start at 1
LacksSeq(it) == it.type # "folder" /\ ("seq" \notin DOMAIN it \/ it.seq = 0)

\* after is the sibling list before with its sequence numbers hydrated: a
\* request that lacks one has 1 plus the number of such requests before it
\* in the list, any other request is as it was, a folder is hydrated inside
RECURSIVE HydratedList(_, _)
HydratedList(before, after) ==
    /\ Len(after) = Len(before)
    /\ \A i \in 1..Len(before) :
            IF before[i].type = "folder"
            THEN /\ DOMAIN after[i] = DOMAIN before[i]
                 /\ after[i].name = before[i].name
                 /\ after[i].type = "folder"
                 /\ HydratedList(before[i].items, after[i].items)
            ELSE IF LacksSeq(before[i])
            THEN after[i] =
                    [seq |-> 1 + Cardinality({j \in 1..(i - 1) : LacksSeq(before[j])})]
                    @@ before[i]
            ELSE after[i] = before[i]

RECURSIVE AllSequenced(_)
AllSequenced(items) ==
    \A i \in 1..Len(items) :
        IF items[i].type = "folder" THEN AllSequenced(items[i].items)
        ELSE "seq" \in DOMAIN items[i] /\ items[i].seq >= 1

\* C23: hydrateSeqInCollection gives every request that lacks a sequence
\* number the next value of a counter that starts at 1 in each sibling list,
\* in list order and without counting folders, and does so inside every
\* folder; a request that has a sequence number keeps it, and afterwards
\* every request of the collection has a sequence number of at least 1.
HydrationNumbersSiblings ==
    (call.fn = "hydrateSeqInCollection" /\ result[1] = "returned") =>
        /\ HydratedList(call.collection.items, result[2].items)
        /\ AllSequenced(result[2].items)

\* a request, a folder and a request: the requests got 1 and 2; in the
\* folder the request numbered 5 kept its number and the two others got 1
\* and 2
HydrationWitness ==
    /\ call.fn = "hydrateSeqInCollection"
    /\ result[1] = "returned"
    /\ call.collection.items =
            <<RequestItem("a", "http-request"),
              FolderItem("f", <<[seq |-> 5] @@ RequestItem("b", "http-request"),
                                RequestItem("a", "http-request"),
                                [seq |-> 0] @@ RequestItem("c", "graphql-request")>>),
              RequestItem("d", "graphql-request")>>
    /\ result[2].items[1].seq = 1
    /\ result[2].items[3].seq = 2
    /\ "seq" \notin DOMAIN result[2].items[2]
    /\ result[2].items[2].items[1].seq = 5
    /\ result[2].items[2].items[2].seq = 1
    /\ result[2].items[2].items[3].seq = 2

\* C10: generateExampleValue returns the first element of a non-empty enum
\* whatever the default and type; without one it returns the default when a
\* default is present, the falsy defaults 0, false and "" included; only
\* with neither does it fall through to the synthesis by type.
SynthesizePrecedence ==
    (call.fn = "generateExampleValue" /\ result[1] = "returned") =>
        LET p == call.property
            nonEmptyEnum == Member(p, "enum")[1] = "array" /\ Len(Member(p, "enum")[2]) >= 1
            hasDefault == Member(p, "default")[1] # "undefined"
        IN  /\ nonEmptyEnum => result[2] = Head(Member(p, "enum")[2])
            /\ (~nonEmptyEnum /\ hasDefault) => result[2] = Member(p, "default")
            /\ (~nonEmptyEnum /\ ~hasDefault) =>
                    result[2] = TypeExample(p, call.name, call.now)

\* a field without enum whose default is the number 0 gave 0, not the
\* example of its name and type
SynthesizePrecedenceWitness ==
    /\ call.fn = "generateExampleValue"
    /\ call.name = "status"
    /\ Member(call.property, "type") = JStr("string")
    /\ Member(call.property, "enum") = JArr(<<>>)
    /\ Member(call.property, "default") = JNum(0)
    /\ result[1] = "returned"
    /\ result[2] = JNum(0)

\* the example of a field whose type is string: by name, then by format
LookupExample(p, name, now) ==
    CASE name = "status" -> JStr("publish")
      [] name \in {"title", "name"} -> JStr("Example Title")
      [] name = "content" -> JStr("Example content")
      [] name = "slug" -> JStr("example-slug")
      [] name = "password" -> JStr("")
      [] name = "author" -> JNum(1)
      [] OTHER ->
            IF Member(p, "format") = JStr("date-time") THEN JStr(now)
            ELSE IF Member(p, "format") = JStr("uri") THEN JStr("https://example.com")
            ELSE JStr("")

\* the examples only the lookup by field name gives
ContextualExamples ==
    {JStr("publish"), JStr("Example Title"), JStr("Example content"),
     JStr("example-slug"), JNum(1)}

NormalizedTypeOf(p) ==
    IF Member(p, "type") = Undef THEN JStr("string")
    ELSE IF Member(p, "type") \in {JStr("date"), JStr("date-time"), JStr("email"),
                                    JStr("hostname"), JStr("ipv4"), JStr("ipv6"),
                                    JStr("uri"), JStr("url"), JStr("mixed")}
         THEN JStr("string")
    ELSE IF Member(p, "type") = JStr("bool") THEN JStr("boolean")
    ELSE Member(p, "type")

NoEnumNoDefault(p) ==
    /\ ~(Member(p, "enum")[1] = "array" /\ Len(Member(p, "enum")[2]) >= 1)
    /\ Member(p, "default") = Undef

\* whether value is the example of the field definition p named name
RECURSIVE IsExampleByType(_, _, _, _)
IsExampleByType(value, p, name, now) ==
    IF Member(p, "enum")[1] = "array" /\ Len(Member(p, "enum")[2]) >= 1
    THEN value = Member(p, "enum")[2][1]
    ELSE IF Member(p, "default") # Undef THEN value = Member(p, "default")
    ELSE CASE NormalizedTypeOf(p) = JStr("integer") -> value = JNum(0)
           [] NormalizedTypeOf(p) = JStr("number") -> value = JNum(0)
           [] NormalizedTypeOf(p) = JStr("boolean") -> value = JBool(FALSE)
           [] NormalizedTypeOf(p) = JStr("array") -> value = JArr(<<>>)
           [] NormalizedTypeOf(p) = JStr("object") ->
                LET nested == IF Truthy(Member(p, "properties"))
                              THEN Member(p, "properties")[2] ELSE <<>>
                IN  /\ value[1] = "object"
                    /\ Keys(value[2]) = Keys(nested)
                    /\ \A k \in 1..Len(nested) :
                            IsExampleByType(value[2][k][2], nested[k][2], nested[k][1], now)
           [] NormalizedTypeOf(p) = JStr("string") ->
                value = LookupExample(p, name, now)
           [] OTHER -> value \notin ContextualExamples

\* C20: for a field with no non-empty enum and no default, generateExampleValue
\* gives 0 for the normalized types integer and number, false for boolean,
\* the empty list for array, and for object a mapping of exactly the names
\* of the nested properties to their examples (the empty mapping when there
\* are none); only a field whose normalized type is string reaches the
\* lookup by field name, which comes before the rules for the formats
\* date-time and uri, the empty string being the last resort.
SynthesizeByType ==
    (/\ call.fn = "generateExampleValue"
     /\ result[1] = "returned"
     /\ NoEnumNoDefault(call.property)) =>
        IsExampleByType(result[2], call.property, call.name, call.now)

\* the result the replacement table prescribes: a table name gives its
\* replacement, a list the list of its elements' results, anything else itself
RECURSIVE TableResult(_)
TableResult(type) ==
    IF type[1] = "array"
    THEN JArr([i \in 1..Len(type[2]) |-> TableResult(type[2][i])])
    ELSE IF type \in {JStr("date"), JStr("date-time"), JStr("email"),
                      JStr("hostname"), JStr("ipv4"), JStr("ipv6"), JStr("uri"),
                      JStr("url"), JStr("mixed")}
         THEN JStr("string")
    ELSE IF type = JStr("bool") THEN JStr("boolean")
    ELSE type

\* C11: normalizeWordPressType maps date, date-time, email, hostname, ipv4,
\* ipv6, uri, url and mixed to string and bool to boolean, returns every
\* other value unchanged, maps a list element by element keeping order and
\* length, and applied to its own result returns that result.
NormalizeTypeTable ==
    (call.fn = "normalizeWordPressType" /\ result[1] = "returned") =>
        /\ result[2] = TableResult(call.type)
        /\ (call.type[1] = "array") =>
                /\ result[2][1] = "array"
                /\ Len(result[2][2]) = Len(call.type[2])
        /\ (call.type = JArr(<<JStr("date"), JStr("bool")>>)) =>
                result[2] = JArr(<<JStr("string"), JStr("boolean")>>)
        /\ normalizeWordPressType(result[2]) = result[2]

-----------------------------------------------------------------------------
(* Properties of transformWordPressEndpoint, checked under Spec *)

Occurrences(s, pat) == Cardinality({i \in 1..Len(s) : StartsAt(s, i, pat)})

ParamsOfType(params, type) == SelectSeq(params, LAMBDA e : e.type = type)

\* the index of the ")" that closes a group whose inside starts at i, the
\* groups opened inside it being closed first; 0 when there is none
RECURSIVE CloseOf(_, _, _)
CloseOf(s, i, depth) ==
    IF i > Len(s) THEN 0
    ELSE IF Ch(s, i) = "\\" THEN CloseOf(s, i + 2, depth)
    ELSE IF Ch(s, i) = "(" THEN CloseOf(s, i + 1, depth + 1)
    ELSE IF Ch(s, i) = ")"
         THEN IF depth = 0 THEN i ELSE CloseOf(s, i + 1, depth - 1)
    ELSE CloseOf(s, i + 1, depth)

\* the route with every named capture group, up to the parenthesis that
\* closes it, replaced by ":" and its name
RECURSIVE WithPathVariables(_, _)
WithPathVariables(s, i) ==
    IF i > Len(s) THEN ""
    ELSE LET nameEnd == WordRunEnd(s, i + 4)
             close == CloseOf(s, nameEnd + 1, 0)
         IN  IF StartsAt(s, i, "(?P<") /\ nameEnd > i + 4 /\ StartsAt(s, nameEnd, ">")
                /\ close > nameEnd + 1
             THEN ":" \o SubSeq(s, i + 4, nameEnd - 1) \o WithPathVariables(s, close + 1)
             ELSE Ch(s, i) \o WithPathVariables(s, i + 1)

\* the names of the ":name" variables of a URL, in order
RECURSIVE UrlVariables(_, _)
UrlVariables(u, i) ==
    IF i > Len(u) THEN <<>>
    ELSE IF Ch(u, i) = ":" /\ WordRunEnd(u, i + 1) > i + 1
         THEN <<SubSeq(u, i + 1, WordRunEnd(u, i + 1) - 1)>>
              \o UrlVariables(u, WordRunEnd(u, i + 1))
         ELSE UrlVariables(u, i + 1)

\* C2: a GET on the single-post route without arguments gives "Get posts by
\* ID", the URL with :id, exactly one parameter entry, the enabled path
\* parameter id, body mode none and one assertion, on status 200; and in
\* every descriptor the path parameter entries are, one for one, the
\* placeholder names of the route.
ScenarioGetPostById ==
    (pc = "returned") =>
        /\ (/\ route = "/wp/v2/posts/(?P<id>[\\d]+)"
            /\ method = "GET"
            /\ ArgsOf(endpoint)[2] = <<>>) =>
                /\ item.name = "Get posts by ID"
                /\ item.request.url = "{{baseUrl}}/wp/v2/posts/:id"
                /\ Len(item.request.params) = 1
                /\ item.request.params[1].name = "id"
                /\ item.request.params[1].type = "path"
                /\ item.request.params[1].enabled
                /\ item.request.body.mode = "none"
                /\ Occurrences(item.request.tests, "test(") = 1
                /\ Occurrences(item.request.tests, "Status code is 200") = 1
        /\ LET entries == ParamsOfType(item.request.params, "path")
               names == extractPathParameters(route)
           IN  /\ \A k \in 1..Len(names) :
                    Cardinality({e \in 1..Len(entries) : entries[e].name = names[k]}) = 1
               /\ \A e \in 1..Len(entries) : SeqIncludes(names, entries[e].name)

\* C3: the URL is the route with each named capture group replaced by ":"
\* and its name, the text around the groups unchanged and in order and
\* nothing of a group's pattern left; the ":name" variables of the URL are
\* the names the path-parameter extraction returns.
UrlRewritesEveryCaptureGroup ==
    (pc = "returned") =>
        /\ item.request.url = "{{baseUrl}}" \o WithPathVariables(route, 1)
        /\ UrlVariables(item.request.url, 1) = extractPathParameters(route)

\* C5: no two entries of a descriptor's parameter list have the same name
\* and the same location.
NoDuplicateParams ==
    (pc = "returned") =>
        \A i, j \in 1..Len(item.request.params) :
            (i # j) =>
                ~(/\ item.request.params[i].name = item.request.params[j].name
                  /\ item.request.params[i].type = item.request.params[j].type)

ListParamNames == {"page", "per_page", "search", "orderby", "order", "_embed"}

\* C6: a GET on a route without capture group has a query parameter for each
\* of page, per_page, search, orderby, order and _embed, each appended,
\* disabled, only when no parameter of that name is present, an argument of
\* that name being left as the argument produced it; no other request gets
\* one appended; GET /wp/v2/posts without arguments gives "List posts", six
\* disabled query parameters and two assertions.
ListParamsAppendedOnce ==
    (pc = "returned") =>
        LET params == item.request.params
            args == ArgsOf(endpoint)[2]
            named(n) == SelectSeq(params, LAMBDA e : e.name = n)
            isList == item.request.method = "GET" /\ ~includes(route, "(?P<")
        IN  /\ \A n \in ListParamNames :
                IF HasKey(args, n)
                THEN isList => /\ Len(named(n)) = 1
                               /\ named(n)[1].type = "query"
                               /\ named(n)[1].enabled
                                    = (Member(Get(args, n), "required") = JBool(TRUE))
                ELSE IF isList
                     THEN /\ Len(named(n)) = 1
                          /\ named(n)[1].type = "query"
                          /\ ~named(n)[1].enabled
                     ELSE Len(named(n)) = 0
            /\ (route = "/wp/v2/posts" /\ method = "GET" /\ args = <<>>) =>
                    /\ item.name = "List posts"
                    /\ Len(params) = 6
                    /\ \A k \in 1..6 : params[k].type = "query" /\ ~params[k].enabled
                    /\ Occurrences(item.request.tests, "test(") = 2

\* C7: every mutating method carries exactly one Content-Type:
\* application/json header and the body generateRequestBody composes: mode
\* json with the document when it returns one, mode none otherwise; a GET
\* has no Content-Type header and mode none; a POST to /wp/v2/posts with the
\* arguments title and status (enum publish, draft) is "Create posts" with
\* title the placeholder title and status "publish".
MutatingMethodsCarryBody ==
    (pc = "returned") =>
        LET req == item.request
            contentTypes == SelectSeq(req.headers, LAMBDA h : h.name = "Content-Type")
            composed == generateRequestBody(ArgsOf(endpoint), schema, req.method,
                                            extractPathParameters(route), clock)
        IN  /\ (req.method \in {"POST", "PUT", "PATCH", "DELETE"}) =>
                    /\ Len(contentTypes) = 1
                    /\ contentTypes[1].value = "application/json"
                    /\ IF composed = JNull
                       THEN req.body.mode = "none" /\ req.body.json = JNull
                       ELSE req.body.mode = "json" /\ req.body.json = composed
            /\ (req.method = "GET") =>
                    Len(contentTypes) = 0 /\ req.body.mode = "none"
            /\ (/\ route = "/wp/v2/posts"
                /\ method = "POST"
                /\ Keys(ArgsOf(endpoint)[2]) = <<"title", "status">>) =>
                    /\ item.name = "Create posts"
                    /\ req.body.mode = "json"
                    /\ Get(JSONParse(req.body.json)[2], "title") = JStr("Example Title")
                    /\ Get(JSONParse(req.body.json)[2], "status") = JStr("publish")

\* C8: every descriptor has exactly one status-code assertion, on 201 for a
\* POST and on 200 for every other method, and the "Response is an array"
\* assertion exactly when the method is GET, the route is a collection
\* endpoint and the route has no capture group.
AssertionsByMethodAndRoute ==
    (pc = "returned") =>
        LET tests == item.request.tests
            expectsArray == /\ item.request.method = "GET"
                            /\ isCollectionEndpoint(route)
                            /\ ~includes(route, "(?P<")
        IN  /\ Occurrences(tests, "test(\"Status code is ") = 1
            /\ Occurrences(tests, "expect(res.status).to.equal(") = 1
            /\ IF item.request.method = "POST"
               THEN /\ Occurrences(tests, "test(\"Status code is 201\"") = 1
                    /\ Occurrences(tests, "expect(res.status).to.equal(201);") = 1
               ELSE /\ Occurrences(tests, "test(\"Status code is 200\"") = 1
                    /\ Occurrences(tests, "expect(res.status).to.equal(200);") = 1
            /\ Occurrences(tests, "test(\"Response is an array\"")
                    = (IF expectsArray THEN 1 ELSE 0)
            /\ Occurrences(tests, "test(") = (IF expectsArray THEN 2 ELSE 1)

\* a GET on a collection route that has a capture group returned with the
\* status assertion alone
AssertionsWitness ==
    /\ pc = "returned"
    /\ route = "/wp/v2/posts/(?P<parent>[\\d]+)/revisions"
    /\ method = "GET"
    /\ isCollectionEndpoint(route)
    /\ Occurrences(item.request.tests, "test(") = 1

\* the path segment that follows the first namespace/version pair of the
\* route ("/name/v" and digits, then "/"), "resource" when there is none
RECURSIVE SegmentAfterNamespace(_, _)
SegmentAfterNamespace(r, i) ==
    IF i > Len(r) THEN "resource"
    ELSE LET nameEnd == RunUntil(r, i + 1, "/")
             verEnd == DigitRunEnd(r, nameEnd + 2)
             segEnd == RunUntil(r, verEnd + 1, "/")
         IN  IF /\ Ch(r, i) = "/"
                /\ nameEnd > i + 1
                /\ StartsAt(r, nameEnd, "/v")
                /\ verEnd > nameEnd + 2
                /\ StartsAt(r, verEnd, "/")
                /\ segEnd > verEnd + 1
             THEN SubSeq(r, verEnd + 1, segEnd - 1)
             ELSE SegmentAfterNamespace(r, i + 1)

\* C9: the display name follows the decision table on the method, the kind
\* of route and the resource token, the resource token being the path
\* segment after the namespace/version pair of the route.
DisplayNameTable ==
    (pc = "returned") =>
        LET resource == SegmentAfterNamespace(route, 1)
            m == item.request.method
            hasId == includes(route, "(?P<")
            special == includes(route, "autosaves") \/ includes(route, "revisions")
        IN  /\ (m = "GET" /\ hasId /\ ~special) =>
                    item.name = "Get " \o resource \o " by ID"
            /\ (m = "GET" /\ isCollectionEndpoint(route) /\ ~hasId) =>
                    item.name = "List " \o resource
            /\ (m = "POST" /\ includes(route, "autosaves")) =>
                    item.name = "Create " \o resource \o " autosave"
            /\ (m \in {"PUT", "PATCH"}) => item.name = "Update " \o resource
            /\ (m \notin {"GET", "POST", "PUT", "PATCH", "DELETE"}) =>
                    item.name = m \o " " \o route

====
